---- MODULE Spec2Model ----
(***************************************************************************)
(* Model of the GrammarLee inline-anchor parser (src/src/grammarlee/       *)
(* parser.py): the depth-aware anchor scanner, the renderer, the           *)
(* reconstruction of the original text and parse_document.                 *)
(*                                                                         *)
(* A Python str is a sequence of one-character strings.  Offsets are the   *)
(* 0-based offsets of the source; At and Slice translate them.             *)
(***************************************************************************)
EXTENDS Integers, Sequences, FiniteSets, TLC

VARIABLES
    edited_text,      \* pred.edited_text, the inline text with anchors
    edits,            \* pred.edits, the sequence of Edit records
    backmatter_text,  \* pred.backmatter_text
    original_text,    \* the original_text argument, or None
    pc,               \* position of the call
    i,                \* iter_inline_matches: the cursor
    depth,            \* iter_inline_matches: the bracket-depth counter
    matches,          \* iter_inline_matches: the matches yielded so far
    result,           \* the returned value (ParseResult, anchors, text), or None
    payload,          \* the argument of _unescape_minimal
    unescaped,        \* the value _unescape_minimal returned, or None
    document,         \* a raw document str passed in place of a producer
    calls,            \* the frames of the concurrent parse_document calls
    config,           \* the reward configuration (a dict)
    breakdown,        \* the RewardBreakdown compute_reward returned, or None
    revised_text,     \* the revised argument of detect_changes
    session,          \* the TextEditSession detect_changes returned, or None
    change_id_counter,\* ChangeDetector._change_id_counter
    decisions,        \* the decisions argument of apply_user_decisions
    lines             \* the lines a backmatter block was written from

\* the state of the parser calls
parserVars == <<edited_text, edits, backmatter_text, original_text, pc,
                i, depth, matches, result, payload, unescaped>>

\* the state of the other entry points
extVars == <<document, calls, config, breakdown, revised_text, session,
             change_id_counter, decisions, lines>>

vars == <<edited_text, edits, backmatter_text, original_text, pc,
          i, depth, matches, result, payload, unescaped,
          document, calls, config, breakdown, revised_text, session,
          change_id_counter, decisions, lines>>

\* Python None, kept apart from every str (a sequence of characters)
None == <<"None">>

\* the other entry points are not in use
ExtIdle ==
    /\ document = None /\ calls = <<>>
    /\ config = None /\ breakdown = None
    /\ revised_text = None /\ session = None
    /\ change_id_counter = 0 /\ decisions = <<>>
    /\ lines = <<>>

----------------------------------------------------------------------------
(* Python str primitives *)

At(s, k) == s[k + 1]

Slice(s, a, b) == SubSeq(s, a + 1, b)

Digits == {"0", "1", "2", "3", "4", "5", "6", "7", "8", "9"}

DigitValue(c) ==
    CASE c = "0" -> 0 [] c = "1" -> 1 [] c = "2" -> 2 [] c = "3" -> 3
      [] c = "4" -> 4 [] c = "5" -> 5 [] c = "6" -> 6 [] c = "7" -> 7
      [] c = "8" -> 8 [] c = "9" -> 9

\* int(m.group("id")): CPython (3.11 and later, and the security releases of
\* 3.7-3.10) raises ValueError for a digit string longer than
\* sys.int_info.default_max_str_digits.
MAX_STR_DIGITS == 4300

IntRaises(ds) == Len(ds) > MAX_STR_DIGITS

RECURSIVE IntOf(_)
IntOf(ds) ==
    IF ds = <<>> THEN 0
    ELSE 10 * IntOf(SubSeq(ds, 1, Len(ds) - 1)) + DigitValue(ds[Len(ds)])

\* str.replace(pat, rep): every non-overlapping occurrence, left to right
RECURSIVE ReplaceFrom(_, _, _, _)
ReplaceFrom(s, k, pat, rep) ==
    IF k > Len(s) THEN <<>>
    ELSE IF k + Len(pat) - 1 <= Len(s) /\ SubSeq(s, k, k + Len(pat) - 1) = pat
         THEN rep \o ReplaceFrom(s, k + Len(pat), pat, rep)
         ELSE <<s[k]>> \o ReplaceFrom(s, k + 1, pat, rep)

Replace(s, pat, rep) == ReplaceFrom(s, 1, pat, rep)

\* a strip that removes one trailing line break only
RStripOne(s) ==
    IF s # <<>> /\ s[Len(s)] \in {"\r", "\n"} THEN SubSeq(s, 1, Len(s) - 1)
    ELSE s

\* str.rstrip("\r\n")
RStripCRLF(s) ==
    LET keep == {k \in 1..Len(s) : s[k] \notin {"\r", "\n"}}
        last == IF keep = {} THEN 0
                ELSE CHOOSE k \in keep : \A q \in keep : q <= k
    IN SubSeq(s, 1, last)

\* str.strip() == "" for the whitespace of the model
IsBlank(s) == \A k \in 1..Len(s) : s[k] \in {" ", "\t", "\r", "\n"}

----------------------------------------------------------------------------
(* INLINE_TOKEN_RE and _unescape_minimal *)

NoMatch == [start |-> -1]

\* end of the maximal digit run that starts at offset p
DigitRunEnd(s, p) ==
    CHOOSE k \in p..Len(s) :
        /\ (k = Len(s) \/ At(s, k) \notin Digits)
        /\ \A q \in p..(k - 1) : At(s, q) \in Digits

\* the token with an id of any digits (\d+ in place of [1-9]\d*)
TokenAtAnyDigits(s, b, j) ==
    /\ j + 3 < Len(s)
    /\ At(s, j) = ":" /\ At(s, j + 1) = ":"
    /\ At(s, j + 2) \in Digits
    /\ \A q \in (b + 1)..(j - 1) : At(s, q) \notin {"[", "]"}
    /\ DigitRunEnd(s, j + 2) < Len(s)
    /\ At(s, DigitRunEnd(s, j + 2)) = "]"

\* the token matches at offset b with the '::' at offset j
TokenAt(s, b, j) ==
    /\ j + 3 < Len(s)
    /\ At(s, j) = ":" /\ At(s, j + 1) = ":"
    /\ At(s, j + 2) \in Digits \ {"0"}
    /\ \A q \in (b + 1)..(j - 1) : At(s, q) \notin {"[", "]"}
    /\ DigitRunEnd(s, j + 2) < Len(s)
    /\ At(s, DigitRunEnd(s, j + 2)) = "]"

\* a pattern that also takes the legacy delete marker '[#N]' as a token with
\* an empty new text
INLINE_TOKEN_RE_legacy(s, b) ==
    LET js == {j \in (b + 1)..(Len(s) - 1) : TokenAt(s, b, j)} IN
    IF b >= Len(s) \/ At(s, b) # "[" THEN NoMatch
    ELSE IF /\ b + 3 < Len(s) /\ At(s, b + 1) = "#"
            /\ At(s, b + 2) \in Digits \ {"0"}
            /\ DigitRunEnd(s, b + 2) < Len(s)
            /\ At(s, DigitRunEnd(s, b + 2)) = "]"
    THEN [start |-> b, end |-> DigitRunEnd(s, b + 2) + 1,
          new |-> <<>>, id |-> Slice(s, b + 2, DigitRunEnd(s, b + 2))]
    ELSE IF js = {} THEN NoMatch
    ELSE LET j == CHOOSE x \in js : \A y \in js : x <= y
             e == DigitRunEnd(s, j + 2)
         IN [start |-> b, end |-> e + 1,
             new |-> Slice(s, b + 1, j), id |-> Slice(s, j + 2, e)]

\* INLINE_TOKEN_RE.match(s, b): the lazy new-text takes the first '::' that
\* is followed by an id and ']'
INLINE_TOKEN_RE(s, b) ==
    LET js == {j \in (b + 1)..(Len(s) - 1) : TokenAt(s, b, j)} IN
    IF b >= Len(s) \/ At(s, b) # "[" \/ js = {} THEN NoMatch
    ELSE LET j == CHOOSE x \in js : \A y \in js : x <= y
             e == DigitRunEnd(s, j + 2)
         IN [start |-> b, end |-> e + 1,
             new |-> Slice(s, b + 1, j), id |-> Slice(s, j + 2, e)]

unescape_minimal(s) ==
    Replace(Replace(Replace(Replace(Replace(Replace(s,
        <<"\\", "\\">>, <<"\\">>),
        <<"\\", "\"">>, <<"\"">>),
        <<"\\", "'">>, <<"'">>),
        <<"\\", "n">>, <<"\n">>),
        <<"\\", "r">>, <<"\r">>),
        <<"\\", "t">>, <<"\t">>)

----------------------------------------------------------------------------
(* iter_inline_matches *)

\* an iteration that tries the token at every '[', whatever the depth
ScanStepAnyDepth(s, c, d) ==
    LET ch == At(s, c)
        m  == IF ch = "[" THEN INLINE_TOKEN_RE(s, c) ELSE NoMatch
    IN IF ch = "[" /\ m # NoMatch THEN [i |-> m.end, depth |-> d, m |-> m]
       ELSE IF ch = "[" THEN [i |-> c + 1, depth |-> d + 1, m |-> NoMatch]
       ELSE IF ch = "]"
            THEN [i |-> c + 1, depth |-> IF d - 1 > 0 THEN d - 1 ELSE 0,
                  m |-> NoMatch]
       ELSE [i |-> c + 1, depth |-> d, m |-> NoMatch]

\* an iteration whose i += 1 belongs to the bracket branches only
ScanStepNoAdvance(s, c, d) ==
    LET ch == At(s, c)
        m  == IF ch = "[" /\ d = 0 THEN INLINE_TOKEN_RE(s, c) ELSE NoMatch
    IN IF ch = "[" /\ m # NoMatch THEN [i |-> m.end, depth |-> d, m |-> m]
       ELSE IF ch = "[" THEN [i |-> c + 1, depth |-> d + 1, m |-> NoMatch]
       ELSE IF ch = "]"
            THEN [i |-> c + 1, depth |-> IF d - 1 > 0 THEN d - 1 ELSE 0,
                  m |-> NoMatch]
       ELSE [i |-> c, depth |-> d, m |-> NoMatch]

\* an iteration that does not count a '[' that starts no anchor
ScanStepNoOpen(s, c, d) ==
    LET ch == At(s, c)
        m  == IF ch = "[" /\ d = 0 THEN INLINE_TOKEN_RE(s, c) ELSE NoMatch
    IN IF ch = "[" /\ m # NoMatch THEN [i |-> m.end, depth |-> d, m |-> m]
       ELSE IF ch = "]"
            THEN [i |-> c + 1, depth |-> IF d - 1 > 0 THEN d - 1 ELSE 0,
                  m |-> NoMatch]
       ELSE [i |-> c + 1, depth |-> d, m |-> NoMatch]

\* one iteration of the while loop at cursor c and depth d: the next cursor,
\* the next depth and the match it yields, if any
ScanStep(s, c, d) ==
    LET ch == At(s, c)
        m  == IF ch = "[" /\ d = 0 THEN INLINE_TOKEN_RE(s, c) ELSE NoMatch
    IN IF ch = "[" /\ m # NoMatch THEN [i |-> m.end, depth |-> d, m |-> m]
       ELSE IF ch = "[" THEN [i |-> c + 1, depth |-> d + 1, m |-> NoMatch]
       ELSE IF ch = "]"
            THEN [i |-> c + 1, depth |-> IF d - 1 > 0 THEN d - 1 ELSE 0,
                  m |-> NoMatch]
       ELSE [i |-> c + 1, depth |-> d, m |-> NoMatch]

RECURSIVE IterFrom(_, _, _)
IterFrom(s, c, d) ==
    IF c >= Len(s) THEN <<>>
    ELSE LET st == ScanStep(s, c, d) IN
         (IF st.m # NoMatch THEN <<st.m>> ELSE <<>>)
             \o IterFrom(s, st.i, st.depth)

iter_inline_matches(s) == IterFrom(s, 0, 0)

----------------------------------------------------------------------------
(* parse_inline_anchors, apply_inline, apply_inline_with_old_text *)

\* an anchor whose span leaves out the closing ']'
InlineAnchorShortSpan(m) ==
    [id |-> IntOf(m.id),
     kind |-> IF m.new = <<>> THEN "delete" ELSE "replace_or_insert",
     new_text |-> m.new,
     span |-> <<m.start, m.end - 1>>]

InlineAnchor(m) ==
    [id |-> IntOf(m.id),
     kind |-> IF m.new = <<>> THEN "delete" ELSE "replace_or_insert",
     new_text |-> m.new,
     span |-> <<m.start, m.end>>]

\* an anchor list that keeps only the first match of each id
AnchorsOfUnique(ms) ==
    LET keep   == {k \in 1..Len(ms) :
                      \A q \in 1..(k - 1) : ms[q].id # ms[k].id}
        nth(n) == CHOOSE k \in keep : Cardinality({q \in keep : q <= k}) = n
    IN [n \in 1..Cardinality(keep) |-> InlineAnchor(ms[nth(n)])]

AnchorsOf(ms) == [k \in 1..Len(ms) |-> InlineAnchor(ms[k])]

\* int(m.group("id")) raises for one of the matches
AnchorsRaise(ms) == \E k \in 1..Len(ms) : IntRaises(ms[k].id)

parse_inline_anchors(s) == AnchorsOf(iter_inline_matches(s))

\* the loop body shared by the two renderers: subs[k] replaces match ms[k]
RECURSIVE RenderFrom(_, _, _, _, _)
RenderFrom(s, ms, subs, k, last) ==
    IF k > Len(ms) THEN Slice(s, last, Len(s))
    ELSE Slice(s, last, ms[k].start) \o subs[k]
             \o RenderFrom(s, ms, subs, k + 1, ms[k].end)

apply_inline(s) ==
    LET ms   == iter_inline_matches(s)
        subs == [k \in 1..Len(ms) |-> unescape_minimal(ms[k].new)]
    IN RStripCRLF(RenderFrom(s, ms, subs, 1, 0))

\* {edit.id: edit.old for edit in edits}: a later edit overwrites an earlier
EditMapHas(es, id) == \E k \in 1..Len(es) : es[k].id = id

\* a mapping in which the first edit with an ID is kept
EditMapGetFirst(es, id) ==
    LET ks == {k \in 1..Len(es) : es[k].id = id}
    IN es[CHOOSE k \in ks : \A q \in ks : k <= q].old

EditMapGet(es, id) ==
    LET ks == {k \in 1..Len(es) : es[k].id = id}
    IN es[CHOOSE k \in ks : \A q \in ks : q <= k].old

\* a reconstruction that keeps the line breaks at its end
apply_inline_with_old_text_unstripped(s, es) ==
    LET ms   == iter_inline_matches(s)
        subs == [k \in 1..Len(ms) |->
                    IF EditMapHas(es, IntOf(ms[k].id))
                    THEN unescape_minimal(EditMapGet(es, IntOf(ms[k].id)))
                    ELSE unescape_minimal(ms[k].new)]
    IN RenderFrom(s, ms, subs, 1, 0)

apply_inline_with_old_text(s, es) ==
    LET ms   == iter_inline_matches(s)
        subs == [k \in 1..Len(ms) |->
                    IF EditMapHas(es, IntOf(ms[k].id))
                    THEN unescape_minimal(EditMapGet(es, IntOf(ms[k].id)))
                    ELSE unescape_minimal(ms[k].new)]
    IN RStripCRLF(RenderFrom(s, ms, subs, 1, 0))

----------------------------------------------------------------------------
(* parse_document *)

\* getattr(pred, name, "") or ""
OrEmpty(x) == IF x = None THEN <<>> ELSE x

IdSet(xs) == {xs[k].id : k \in 1..Len(xs)}

\* _generate_diff_message: the unified diff of the two line lists; it is
\* empty only when the line lists, hence the texts, are equal
generate_diff_message(original, reconstructed) ==
    IF original # reconstructed
    THEN [text |-> "Text mismatch when reconstructing original from edits:",
          original |-> original, reconstructed |-> reconstructed]
    ELSE [text |-> "Text mismatch: original length, reconstructed length",
          original |-> Len(original), reconstructed |-> Len(reconstructed)]

CountError == [msg |-> "Edits not matching anchors."]

IdError == [msg |-> "Anchor IDs not matched."]

ReconstructError(original, reconstructed) ==
    [msg |-> "Failed to reconstruct original text from edits.",
     diff |-> generate_diff_message(original, reconstructed)]

\* lines 183-192: the reconstruction check.  Nothing inside the try raises
\* for str fields, so the except branch (lines 191-192) adds no entry.
ReconstructionErrors(inline_text, es, original) ==
    IF original # None /\ es # <<>>
    THEN LET reconstructed_text == apply_inline_with_old_text(inline_text, es)
         IN IF reconstructed_text # original
            THEN <<ReconstructError(original, reconstructed_text)>>
            ELSE <<>>
    ELSE <<>>

IdSeq(xs) == [k \in 1..Len(xs) |-> xs[k].id]

\* an errors list that compares the IDs in order instead of as sets
DocumentErrorsOrdered(inline_text, anchors, es, original) ==
    (IF es # <<>> /\ Len(anchors) # Len(es) THEN <<CountError>> ELSE <<>>)
    \o (IF es # <<>> /\ IdSeq(anchors) # IdSeq(es) THEN <<IdError>> ELSE <<>>)
    \o ReconstructionErrors(inline_text, es, original)

VALID_CATEGORIES ==
    {"GRAMMAR", "SPELLING", "PUNCTUATION", "STYLE", "CLARITY", "WORD",
     "WORDINESS"}

\* an errors list that also reports an edit whose category is not valid
DocumentErrorsCategory(inline_text, anchors, es, original) ==
    (IF es # <<>> /\ Len(anchors) # Len(es) THEN <<CountError>> ELSE <<>>)
    \o (IF es # <<>> /\ IdSet(anchors) # IdSet(es) THEN <<IdError>> ELSE <<>>)
    \o ReconstructionErrors(inline_text, es, original)
    \o (IF \E k \in 1..Len(es) : es[k].category \notin VALID_CATEGORIES
        THEN <<[msg |-> "Invalid category."]>> ELSE <<>>)

\* an errors list that also reports an edit whose new text is not the
\* payload of an anchor with its ID
DocumentErrorsNewChecked(inline_text, anchors, es, original) ==
    (IF es # <<>> /\ Len(anchors) # Len(es) THEN <<CountError>> ELSE <<>>)
    \o (IF es # <<>> /\ IdSet(anchors) # IdSet(es) THEN <<IdError>> ELSE <<>>)
    \o ReconstructionErrors(inline_text, es, original)
    \o (IF \E k \in 1..Len(es), q \in 1..Len(anchors) :
               anchors[q].id = es[k].id /\ anchors[q].new_text # es[k].new
        THEN <<[msg |-> "Edit does not match anchor."]>> ELSE <<>>)

\* an errors list that reports only edit IDs without an anchor
DocumentErrorsSubset(inline_text, anchors, es, original) ==
    (IF es # <<>> /\ Len(anchors) # Len(es) THEN <<CountError>> ELSE <<>>)
    \o (IF es # <<>> /\ ~(IdSet(es) \subseteq IdSet(anchors))
        THEN <<IdError>> ELSE <<>>)
    \o ReconstructionErrors(inline_text, es, original)

\* an errors list whose count and ID checks run without edits too
DocumentErrorsUnguarded(inline_text, anchors, es, original) ==
    (IF Len(anchors) # Len(es) THEN <<CountError>> ELSE <<>>)
    \o (IF IdSet(anchors) # IdSet(es) THEN <<IdError>> ELSE <<>>)
    \o ReconstructionErrors(inline_text, es, original)

\* lines 173-192: the errors list
DocumentErrors(inline_text, anchors, es, original) ==
    (IF es # <<>> /\ Len(anchors) # Len(es) THEN <<CountError>> ELSE <<>>)
    \o (IF es # <<>> /\ IdSet(anchors) # IdSet(es) THEN <<IdError>> ELSE <<>>)
    \o ReconstructionErrors(inline_text, es, original)

\* parse_anchors raises (line 170) before anything is returned
parse_document_raises(text) == AnchorsRaise(iter_inline_matches(OrEmpty(text)))

parse_document(text, es, backmatter, original) ==
    LET inline_text == OrEmpty(text)
        anchors     == parse_inline_anchors(inline_text)
    IN [inline_text     |-> inline_text,
        backmatter_text |-> OrEmpty(backmatter),
        final_text      |-> apply_inline(inline_text),
        anchors         |-> anchors,
        edits           |-> es,
        errors          |-> DocumentErrors(inline_text, anchors, es, original)]

----------------------------------------------------------------------------
(* Inputs *)

\* every concatenation of at most n pieces
RECURSIVE TextsUpTo(_, _)
TextsUpTo(P, n) ==
    IF n = 0 THEN {<<>>}
    ELSE LET prev == TextsUpTo(P, n - 1)
         IN prev \cup {t \o p : t \in prev, p \in P}

\* an anchor whose id has one digit more than int() converts
LongIdText ==
    <<"[", ":", ":">> \o [k \in 1..(MAX_STR_DIGITS + 1) |-> "1"] \o <<"]">>

MaxDocPieces == 2
MaxEdits == 2
MaxScanPieces == 4
MaxPayload == 3

DocPieces ==
    {<<"a">>, <<"[", "b", ":", ":", "1", "]">>, <<"[", ":", ":", "2", "]">>}

DocTexts == TextsUpTo(DocPieces, MaxDocPieces) \cup {None, LongIdText}

\* old text with its category and comment; the last old holds an escape
EditShapes ==
    {[old |-> <<"a">>, category |-> "GRAMMAR", comment |-> <<"o", "k">>],
     [old |-> <<"a">>, category |-> "BADCAT", comment |-> <<>>],
     [old |-> <<"\\", "\\">>, category |-> "GRAMMAR", comment |-> <<"o", "k">>]}

EditPool ==
    {[id |-> n, old |-> e.old, new |-> <<"b">>,
      category |-> e.category, comment |-> e.comment] :
        n \in {1, 2}, e \in EditShapes}

RECURSIVE SeqsUpTo(_, _)
SeqsUpTo(S, n) ==
    IF n = 0 THEN {<<>>}
    ELSE LET prev == SeqsUpTo(S, n - 1)
         IN prev \cup {Append(q, x) : q \in prev, x \in S}

EditSeqs == SeqsUpTo(EditPool, MaxEdits)

Originals == {None, <<"a">>, <<"\\">>, <<"a", "\n">>}

Backmatters == {<<>>, <<" ">>, <<"x">>}

ScanPieces ==
    {<<"[">>, <<"]">>, <<":", ":">>, <<"0">>, <<"1">>, <<"\n">>,
     <<"[", "\\", "t", "b", ":", ":", "2", "]">>, <<"[", ":", ":", "0", "]">>}

\* the tokens of test_depth_aware_scanner that must not match
RejectedTokens ==
    {<<"[", ":", ":", "0", "]">>, <<"[", "x", ":", ":", "0", "]">>,
     <<"[", ":", ":", "0", "1", "]">>, <<"[", "]">>, <<"[", ":", ":", "]">>,
     <<"[", "x", ":", ":", "]">>, <<"[", "#", "7", "]">>}

NestedToken == <<"[", "a", "[", "b", ":", ":", "1", "]">>

\* the texts of tests/test_inline_anchors.py, which hold the legacy delete
\* marker '[#N]', and a marker followed by an anchor
LegacyRenderText ==
    <<"T", " ", "[", "x", "x", ":", ":", "1", "2", "]", " ", "m", " ", "[",
      "#", "3", "]", "\n">>

LegacySpanText ==
    <<"A", " ", "[", "b", ":", ":", "9", "]", " ", "C", " ", "[", "#", "1",
      "0", "]", " ", "D">>

\* the text of test_parse_inline_kinds_and_spans
KindsText ==
    <<"X", " ", "[", "a", "l", "p", "h", "a", ":", ":", "1", "]", " ", "Y",
      " ", "[", ":", ":", "2", "]", " ", "Z", " ", "[", "b", "e", "t", "a",
      ":", ":", "3", "]">>

LegacyTexts ==
    {LegacyRenderText, LegacySpanText,
     <<"[", "#", "3", "]", "]", "[", ":", ":", "1", "]">>}

ScanTexts ==
    TextsUpTo(ScanPieces, MaxScanPieces)
        \cup RejectedTokens \cup LegacyTexts
        \cup {NestedToken, LongIdText, KindsText}

EscapeChars == {"\\", "n", "\"", "a"}

Payloads == SeqsUpTo(EscapeChars, MaxPayload)

----------------------------------------------------------------------------
(* Specification of parse_document: one call on any input *)

Init ==
    /\ edited_text \in DocTexts
    /\ edits \in EditSeqs
    /\ backmatter_text \in Backmatters
    /\ original_text \in Originals
    \* the oversized id is tried alone: what it raises depends on nothing else
    /\ edited_text = LongIdText =>
           edits = <<>> /\ backmatter_text = <<>> /\ original_text = None
    /\ pc = "call"
    /\ i = 0 /\ depth = 0 /\ matches = <<>>
    /\ result = None
    /\ payload = <<>> /\ unescaped = None
    /\ ExtIdle

ParseDocumentReturn ==
    /\ pc = "call"
    /\ ~parse_document_raises(edited_text)
    /\ result' = parse_document(edited_text, edits, backmatter_text,
                                original_text)
    /\ pc' = "returned"
    /\ UNCHANGED <<edited_text, edits, backmatter_text, original_text,
                   i, depth, matches, payload, unescaped>>
    /\ UNCHANGED extVars

\* the ValueError of int() leaves parse_document: line 170 is outside the try
ParseDocumentRaise ==
    /\ pc = "call"
    /\ parse_document_raises(edited_text)
    /\ pc' = "raised"
    /\ UNCHANGED <<edited_text, edits, backmatter_text, original_text,
                   i, depth, matches, result, payload, unescaped>>
    /\ UNCHANGED extVars

Next == ParseDocumentReturn \/ ParseDocumentRaise

Spec == Init /\ [][Next]_vars

----------------------------------------------------------------------------
(* Specification of the scanner: parse_inline_anchors, one iteration of    *)
(* iter_inline_matches per step, then apply_inline on the same text        *)

InitScan ==
    /\ edited_text \in ScanTexts
    /\ edits = <<>> /\ backmatter_text = <<>> /\ original_text = None
    /\ pc = "scan"
    /\ i = 0 /\ depth = 0 /\ matches = <<>>
    /\ result = None
    /\ payload = <<>> /\ unescaped = None
    /\ ExtIdle

Iterate ==
    LET st == ScanStep(edited_text, i, depth) IN
    /\ i' = st.i
    /\ depth' = st.depth
    /\ matches' = IF st.m # NoMatch THEN Append(matches, st.m) ELSE matches

ScanFrame ==
    /\ UNCHANGED <<edited_text, edits, backmatter_text, original_text,
                   result, payload, unescaped>>
    /\ UNCHANGED extVars

\* a '[' at depth 0 where the token matches: the match is yielded and
\* parse_inline_anchors converts its id
ScanMatch ==
    /\ pc = "scan" /\ i < Len(edited_text)
    /\ At(edited_text, i) = "["
    /\ ScanStep(edited_text, i, depth).m # NoMatch
    /\ ~IntRaises(ScanStep(edited_text, i, depth).m.id)
    /\ Iterate
    /\ pc' = pc
    /\ ScanFrame

ScanRaise ==
    /\ pc = "scan" /\ i < Len(edited_text)
    /\ At(edited_text, i) = "["
    /\ ScanStep(edited_text, i, depth).m # NoMatch
    /\ IntRaises(ScanStep(edited_text, i, depth).m.id)
    /\ Iterate
    /\ pc' = "raised"
    /\ ScanFrame

\* a '[' that starts no anchor
ScanOpen ==
    /\ pc = "scan" /\ i < Len(edited_text)
    /\ At(edited_text, i) = "["
    /\ ScanStep(edited_text, i, depth).m = NoMatch
    /\ Iterate
    /\ pc' = pc
    /\ ScanFrame

ScanClose ==
    /\ pc = "scan" /\ i < Len(edited_text)
    /\ At(edited_text, i) = "]"
    /\ Iterate
    /\ pc' = pc
    /\ ScanFrame

ScanOther ==
    /\ pc = "scan" /\ i < Len(edited_text)
    /\ At(edited_text, i) \notin {"[", "]"}
    /\ Iterate
    /\ pc' = pc
    /\ ScanFrame

\* the loop ends: parse_inline_anchors returns its anchors
ScanReturn ==
    /\ pc = "scan" /\ i >= Len(edited_text)
    /\ result' = [anchors |-> AnchorsOf(matches), final_text |-> None]
    /\ pc' = "parsed"
    /\ UNCHANGED <<edited_text, edits, backmatter_text, original_text,
                   i, depth, matches, payload, unescaped>>
    /\ UNCHANGED extVars

ApplyInline ==
    /\ pc = "parsed"
    /\ result' = [result EXCEPT !.final_text = apply_inline(edited_text)]
    /\ pc' = "rendered"
    /\ UNCHANGED <<edited_text, edits, backmatter_text, original_text,
                   i, depth, matches, payload, unescaped>>
    /\ UNCHANGED extVars

NextScan ==
    \/ ScanMatch \/ ScanRaise \/ ScanOpen \/ ScanClose \/ ScanOther
    \/ ScanReturn \/ ApplyInline

SpecScan == InitScan /\ [][NextScan]_vars

\* the scanner before its call
InitIdle ==
    /\ edited_text = <<>>
    /\ edits = <<>> /\ backmatter_text = <<>> /\ original_text = None
    /\ pc = "idle"
    /\ i = 0 /\ depth = 0 /\ matches = <<>>
    /\ result = None
    /\ payload = <<>> /\ unescaped = None
    /\ ExtIdle

MaxLoopPieces == 3

\* the texts whose scan is followed to its end; their ids are short, so that
\* int() converts each of them
LoopTexts ==
    TextsUpTo(ScanPieces, MaxLoopPieces)
        \cup RejectedTokens \cup LegacyTexts \cup {NestedToken, KindsText}

\* parse_inline_anchors(s) is called on a text: line 52
CallScan ==
    /\ pc = "idle"
    /\ edited_text' \in LoopTexts
    /\ pc' = "scan"
    /\ UNCHANGED <<edits, backmatter_text, original_text, i, depth, matches,
                   result, payload, unescaped>>
    /\ UNCHANGED extVars

NextScanFair ==
    \/ CallScan
    \/ ScanMatch \/ ScanOpen \/ ScanClose \/ ScanOther
    \/ ScanReturn \/ ApplyInline

\* the iterations of the while loop and the return that follows it
ScanLoop == ScanMatch \/ ScanOpen \/ ScanClose \/ ScanOther \/ ScanReturn

\* the loop runs in one thread that is never suspended for good: an iteration
\* that can be taken is taken; nothing obliges a caller to start a scan or to
\* render its result
SpecScanFair == InitIdle /\ [][NextScanFair]_vars /\ WF_vars(ScanLoop)

----------------------------------------------------------------------------
(* Specification of _unescape_minimal: one call on any payload *)

InitUnescape ==
    /\ payload \in Payloads
    /\ unescaped = None
    /\ pc = "unescape"
    /\ edited_text = <<>> /\ edits = <<>> /\ backmatter_text = <<>>
    /\ original_text = None
    /\ i = 0 /\ depth = 0 /\ matches = <<>>
    /\ result = None
    /\ ExtIdle

Unescape ==
    /\ pc = "unescape"
    /\ unescaped' = unescape_minimal(payload)
    /\ pc' = "unescaped"
    /\ UNCHANGED <<edited_text, edits, backmatter_text, original_text,
                   i, depth, matches, result, payload>>
    /\ UNCHANGED extVars

NextUnescape == Unescape

SpecUnescape == InitUnescape /\ [][NextUnescape]_vars

----------------------------------------------------------------------------
(* Specification of concurrent calls: two threads call parse_document, each  *)
(* on its own producer object; the steps of the two calls interleave.  The   *)
(* module keeps no state outside the frames of the calls: every name the     *)
(* functions assign (inline_text, anchors, i, depth, errors, ...) is a local *)
(* and INLINE_TOKEN_RE is a compiled pattern that is only read.              *)

Procs == {1, 2}

MaxConcPieces == 2

ConcPieces == {<<"[">>, <<"[", "b", ":", ":", "1", "]">>}

ConcTexts == TextsUpTo(ConcPieces, MaxConcPieces) \cup {LongIdText}

ConcEdits ==
    {<<>>,
     <<[id |-> 1, old |-> <<"a">>, new |-> <<"b">>,
        category |-> "GRAMMAR", comment |-> <<>>]>>}

ConcOriginals == {None, <<"a">>}

\* the frame of a call at its entry: pred and original_text are the
\* arguments, given is the producer object as it was handed over
NewFrame(pred, original) ==
    [pred |-> pred, given |-> pred, original_text |-> original, pc |-> "call",
     inline_text |-> None, edits |-> None, backmatter_text |-> None,
     i |-> 0, depth |-> 0, matches |-> <<>>, anchors |-> None,
     final_text |-> None, errors |-> None, result |-> None]

ConcFrames ==
    {NewFrame([edited_text |-> t, edits |-> es, backmatter_text |-> <<>>], o) :
        t \in ConcTexts, es \in ConcEdits, o \in ConcOriginals}

\* a depth counter kept in one place for all calls
SharedDepth(cs, p) == cs[1].depth

\* depth is a local of the generator of call p
LocalDepth(cs, p) == cs[p].depth

InitConc ==
    /\ calls \in [Procs -> ConcFrames]
    \* the oversized id is tried next to one fixed call
    /\ \A p \in Procs :
          calls[p].pred.edited_text = LongIdText =>
              /\ calls[p].pred.edits = <<>> /\ calls[p].original_text = None
              /\ \A q \in Procs \ {p} :
                    calls[q] = NewFrame([edited_text |-> <<"[">>, edits |-> <<>>,
                                         backmatter_text |-> <<>>], None)
    /\ edited_text = <<>> /\ edits = <<>> /\ backmatter_text = <<>>
    /\ original_text = None
    /\ pc = "concurrent"
    /\ i = 0 /\ depth = 0 /\ matches = <<>>
    /\ result = None
    /\ payload = <<>> /\ unescaped = None
    /\ document = None /\ config = None /\ breakdown = None
    /\ revised_text = None /\ session = None
    /\ change_id_counter = 0 /\ decisions = <<>>
    /\ lines = <<>>

ConcFrame ==
    /\ UNCHANGED parserVars
    /\ UNCHANGED <<document, config, breakdown, revised_text, session,
                   change_id_counter, decisions, lines>>

\* lines 166-168: the fields of the producer are read into locals
ConcRead(p) ==
    /\ calls[p].pc = "call"
    /\ calls' = [calls EXCEPT ![p] =
            [@ EXCEPT !.inline_text = OrEmpty(calls[p].pred.edited_text),
                      !.edits = calls[p].pred.edits,
                      !.backmatter_text =
                          OrEmpty(calls[p].pred.backmatter_text),
                      !.pc = "scan"]]
    /\ ConcFrame

\* line 170: one iteration of the scan loop of parse_inline_anchors
ConcScan(p) ==
    LET f  == calls[p]
        st == ScanStep(f.inline_text, f.i, LocalDepth(calls, p))
    IN /\ f.pc = "scan" /\ f.i < Len(f.inline_text)
       /\ ~(st.m # NoMatch /\ IntRaises(st.m.id))
       /\ calls' = [calls EXCEPT ![p] =
               [@ EXCEPT !.i = st.i, !.depth = st.depth,
                         !.matches = IF st.m # NoMatch
                                     THEN Append(@, st.m) ELSE @]]
       /\ ConcFrame

\* int() raises in parse_inline_anchors: the call ends with the exception
ConcRaise(p) ==
    LET f  == calls[p]
        st == ScanStep(f.inline_text, f.i, LocalDepth(calls, p))
    IN /\ f.pc = "scan" /\ f.i < Len(f.inline_text)
       /\ st.m # NoMatch /\ IntRaises(st.m.id)
       /\ calls' = [calls EXCEPT ![p] = [@ EXCEPT !.pc = "raised"]]
       /\ ConcFrame

\* the scan loop ends: line 170 binds anchors
ConcScanEnd(p) ==
    /\ calls[p].pc = "scan" /\ calls[p].i >= Len(calls[p].inline_text)
    /\ calls' = [calls EXCEPT ![p] =
            [@ EXCEPT !.anchors = AnchorsOf(calls[p].matches),
                      !.pc = "render"]]
    /\ ConcFrame

\* line 171
ConcRender(p) ==
    /\ calls[p].pc = "render"
    /\ calls' = [calls EXCEPT ![p] =
            [@ EXCEPT !.final_text = apply_inline(calls[p].inline_text),
                      !.pc = "validate"]]
    /\ ConcFrame

\* lines 173-192
ConcValidate(p) ==
    /\ calls[p].pc = "validate"
    /\ calls' = [calls EXCEPT ![p] =
            [@ EXCEPT !.errors =
                          DocumentErrors(calls[p].inline_text, calls[p].anchors,
                                         calls[p].edits,
                                         calls[p].original_text),
                      !.pc = "assemble"]]
    /\ ConcFrame

\* lines 194-201
ConcReturn(p) ==
    /\ calls[p].pc = "assemble"
    /\ calls' = [calls EXCEPT ![p] =
            [@ EXCEPT !.result =
                          [inline_text     |-> calls[p].inline_text,
                           backmatter_text |-> calls[p].backmatter_text,
                           final_text      |-> calls[p].final_text,
                           anchors         |-> calls[p].anchors,
                           edits           |-> calls[p].edits,
                           errors          |-> calls[p].errors],
                      !.pc = "returned"]]
    /\ ConcFrame

NextConc ==
    \/ \E p \in Procs : ConcRead(p)
    \/ \E p \in Procs : ConcScan(p)
    \/ \E p \in Procs : ConcRaise(p)
    \/ \E p \in Procs : ConcScanEnd(p)
    \/ \E p \in Procs : ConcRender(p)
    \/ \E p \in Procs : ConcValidate(p)
    \/ \E p \in Procs : ConcReturn(p)

SpecConc == InitConc /\ [][NextConc]_vars

----------------------------------------------------------------------------
(* Backmatter grammar parser: parse_backmatter and the Edit record with its  *)
(* derived flags.  Their code is not among the source files (models.py holds *)
(* only Change and TextEditSession); they follow sections 3 and 4.4 of the   *)
(* specification and the calls of tests/test_backmatter.py.                  *)

\* the characters of the words of the format
Chars(w) ==
    CASE w = "REPLACE" -> <<"R", "E", "P", "L", "A", "C", "E">>
      [] w = "INSERT" -> <<"I", "N", "S", "E", "R", "T">>
      [] w = "DELETE" -> <<"D", "E", "L", "E", "T", "E">>
      [] w = "MOVE" -> <<"M", "O", "V", "E">>
      [] w = "GRAMMAR" -> <<"G", "R", "A", "M", "M", "A", "R">>
      [] w = "SPELLING" -> <<"S", "P", "E", "L", "L", "I", "N", "G">>
      [] w = "PUNCTUATION" -> <<"P", "U", "N", "C", "T", "U", "A", "T",
                                "I", "O", "N">>
      [] w = "STYLE" -> <<"S", "T", "Y", "L", "E">>
      [] w = "CLARITY" -> <<"C", "L", "A", "R", "I", "T", "Y">>
      [] w = "WORD" -> <<"W", "O", "R", "D">>
      [] w = "WORDINESS" -> <<"W", "O", "R", "D", "I", "N", "E", "S",
                                "S">>
      [] w = "BADCAT" -> <<"B", "A", "D", "C", "A", "T">>

EDIT_ACTIONS == {"REPLACE", "INSERT", "DELETE"}

\* an action that checks nothing but that new is not empty
consistency_ok_new_only(action, old, new) ==
    action \in EDIT_ACTIONS /\ new # <<>>

\* Edit.consistency_ok: the old/new shape matches the action
consistency_ok(action, old, new) ==
    CASE action = "REPLACE" -> old # <<>> /\ new # <<>>
      [] action = "INSERT"  -> old = <<>> /\ new # <<>>
      [] action = "DELETE"  -> old # <<>> /\ new = <<>>
      [] OTHER -> FALSE

\* Edit.is_valid_category, for a category given as its characters
is_valid_category(category) ==
    \E c \in VALID_CATEGORIES : Chars(c) = category

\* the Edit record of the grammar-driven format: the flags are computed when
\* it is constructed
Edit(id, action, old, new, category, comment) ==
    [id |-> id, action |-> action, old |-> old, new |-> new,
     category |-> category, comment |-> comment,
     is_valid_category |-> is_valid_category(category),
     consistency_ok |-> consistency_ok(action, old, new)]

HWS == {" ", "\t"}

\* first position at or after p that holds no horizontal whitespace
RECURSIVE SkipHws(_, _)
SkipHws(s, p) ==
    IF p <= Len(s) /\ s[p] \in HWS THEN SkipHws(s, p + 1) ELSE p

\* first position at or after p that holds no digit
RECURSIVE DigitsEnd(_, _)
DigitsEnd(s, p) ==
    IF p <= Len(s) /\ s[p] \in Digits THEN DigitsEnd(s, p + 1) ELSE p

HasAt(s, p, w) ==
    p + Len(w) - 1 <= Len(s) /\ SubSeq(s, p, p + Len(w) - 1) = w

\* position of the first c at or after p that no backslash escapes, 0 if none
RECURSIVE ClosingAt(_, _, _)
ClosingAt(s, p, c) ==
    IF p > Len(s) THEN 0
    ELSE IF s[p] = "\\" THEN ClosingAt(s, p + 2, c)
    ELSE IF s[p] = c THEN p
    ELSE ClosingAt(s, p + 1, c)

\* the escapes of a quoted string, read once from left to right
RECURSIVE UnescapeQuoted(_, _)
UnescapeQuoted(s, k) ==
    IF k > Len(s) THEN <<>>
    ELSE IF s[k] = "\\" /\ k < Len(s)
            /\ s[k + 1] \in {"\\", "\"", "'", "n", "r", "t"}
         THEN <<CASE s[k + 1] = "n" -> "\n"
                  [] s[k + 1] = "r" -> "\r"
                  [] s[k + 1] = "t" -> "\t"
                  [] OTHER -> s[k + 1]>> \o UnescapeQuoted(s, k + 2)
         ELSE <<s[k]>> \o UnescapeQuoted(s, k + 1)

BmFail == [ok |-> FALSE]

\* '[' ID ']' with ID a positive integer without leading zero
ParseId(s, p) ==
    LET e == DigitsEnd(s, p + 1) IN
    IF /\ p < Len(s) /\ s[p] = "["
       /\ e > p + 1 /\ s[p + 1] # "0"
       /\ e <= Len(s) /\ s[e] = "]"
    THEN [ok |-> TRUE, val |-> IntOf(SubSeq(s, p + 1, e - 1)), next |-> e + 1]
    ELSE BmFail

ParseAction(s, p) ==
    LET as == {a \in EDIT_ACTIONS : HasAt(s, p, Chars(a))} IN
    IF as = {} THEN BmFail
    ELSE LET a == CHOOSE x \in as : TRUE
         IN [ok |-> TRUE, val |-> a, next |-> p + Len(Chars(a))]

\* a double- or single-quoted string
ParseQuoted(s, p) ==
    IF p <= Len(s) /\ s[p] \in {"\"", "'"}
    THEN LET e == ClosingAt(s, p + 1, s[p]) IN
         IF e = 0 THEN BmFail
         ELSE [ok |-> TRUE, val |-> UnescapeQuoted(SubSeq(s, p + 1, e - 1), 1),
               next |-> e + 1]
    ELSE BmFail

ParseArrow(s, p) ==
    IF HasAt(s, p, <<"-", ">">>) THEN [ok |-> TRUE, next |-> p + 2] ELSE BmFail

\* '[' CATEGORY ']': any token without brackets
ParseCategory(s, p) ==
    LET es == {e \in (p + 1)..Len(s) : s[e] = "]"} IN
    IF p <= Len(s) /\ s[p] = "[" /\ es # {}
    THEN LET e == CHOOSE x \in es : \A y \in es : x <= y IN
         IF \E q \in (p + 1)..(e - 1) : s[q] = "[" THEN BmFail
         ELSE [ok |-> TRUE, val |-> SubSeq(s, p + 1, e - 1), next |-> e + 1]
    ELSE BmFail

\* '(' COMMENT ')': ended by the first ')' that is not escaped
ParseComment(s, p) ==
    IF p <= Len(s) /\ s[p] = "("
    THEN LET e == ClosingAt(s, p + 1, ")") IN
         IF e = 0 THEN BmFail
         ELSE [ok |-> TRUE,
               val |-> Replace(SubSeq(s, p + 1, e - 1), <<"\\", ")">>, <<")">>),
               next |-> e + 1]
    ELSE BmFail

\* the rest of the line is horizontal whitespace and a carriage return
AtLineEnd(s, p) == \A k \in p..Len(s) : s[k] \in HWS \cup {"\r"}

\* one line '[ID] ACTION "OLD" -> "NEW" [CATEGORY](COMMENT)'
ParseLine(s) ==
    LET id == ParseId(s, SkipHws(s, 1)) IN
    IF ~id.ok THEN BmFail ELSE
    LET action == ParseAction(s, SkipHws(s, id.next)) IN
    IF ~action.ok THEN BmFail ELSE
    LET old == ParseQuoted(s, SkipHws(s, action.next)) IN
    IF ~old.ok THEN BmFail ELSE
    LET arrow == ParseArrow(s, SkipHws(s, old.next)) IN
    IF ~arrow.ok THEN BmFail ELSE
    LET new == ParseQuoted(s, SkipHws(s, arrow.next)) IN
    IF ~new.ok THEN BmFail ELSE
    LET category == ParseCategory(s, SkipHws(s, new.next)) IN
    IF ~category.ok THEN BmFail ELSE
    LET comment == ParseComment(s, category.next) IN
    IF ~comment.ok THEN BmFail ELSE
    IF ~AtLineEnd(s, comment.next) THEN BmFail ELSE
    [ok |-> TRUE,
     edit |-> Edit(id.val, action.val, old.val, new.val, category.val,
                   comment.val)]

\* str.split("\n")
RECURSIVE SplitLines(_)
SplitLines(s) ==
    LET ks == {k \in 1..Len(s) : s[k] = "\n"} IN
    IF ks = {} THEN <<s>>
    ELSE LET k == CHOOSE x \in ks : \A y \in ks : x <= y
         IN <<SubSeq(s, 1, k - 1)>> \o SplitLines(SubSeq(s, k + 1, Len(s)))

NotBlank(l) == ~IsBlank(l)

\* a parser that drops the lines it cannot read
parse_backmatter_partial(text) ==
    LET ls == SelectSeq(SplitLines(text), NotBlank)
        rs == [k \in 1..Len(ls) |-> ParseLine(ls[k])]
        ok(r) == r.ok
        good == SelectSeq(rs, ok)
    IN [k \in 1..Len(good) |-> good[k].edit]

\* a parser that keeps the first edit of each id
parse_backmatter_unique(text) ==
    LET ls == SelectSeq(SplitLines(text), NotBlank)
        rs == [k \in 1..Len(ls) |-> ParseLine(ls[k])]
        keep == {k \in 1..Len(rs) :
                    \A q \in 1..(k - 1) : rs[q].edit.id # rs[k].edit.id}
        nth(n) == CHOOSE k \in keep : Cardinality({q \in keep : q <= k}) = n
    IN IF \A k \in 1..Len(rs) : rs[k].ok
       THEN [n \in 1..Cardinality(keep) |-> rs[nth(n)].edit]
       ELSE <<>>

\* parse_backmatter: the edits of all lines, or none if one line is not of
\* the grammar
parse_backmatter(text) ==
    LET ls == SelectSeq(SplitLines(text), NotBlank)
        rs == [k \in 1..Len(ls) |-> ParseLine(ls[k])]
    IN IF \A k \in 1..Len(rs) : rs[k].ok
       THEN [k \in 1..Len(rs) |-> rs[k].edit]
       ELSE <<>>

----------------------------------------------------------------------------
(* Specification of parse_backmatter: one call on a block written line by    *)
(* line, as tests/test_property_based.py writes its blocks                   *)

DigitChar(d) == CHOOSE c \in Digits : DigitValue(c) = d

\* str(n) for n >= 0
RECURSIVE Decimal(_)
Decimal(n) ==
    IF n < 10 THEN <<DigitChar(n)>>
    ELSE Decimal(n \div 10) \o <<DigitChar(n % 10)>>

\* bm_line: f'[{i}] {action} "{old}" -> "{new}" [{cat}]({comment})' with the
\* ')' of the comment escaped
FormatLine(e) ==
    <<"[">> \o Decimal(e.id) \o <<"]", " ">> \o Chars(e.action)
        \o <<" ", "\"">> \o e.old \o <<"\"", " ", "-", ">", " ", "\"">>
        \o e.new \o <<"\"", " ", "[">> \o e.category \o <<"]", "(">>
        \o Replace(e.comment, <<")">>, <<"\\", ")">>) \o <<")">>

LineEdit(id, action, old, new, category, comment) ==
    [id |-> id, action |-> action, old |-> old, new |-> new,
     category |-> Chars(category), comment |-> comment]

\* the edits the well-formed lines are written from: a repeated id, an empty
\* comment, a ')' in a comment, an INSERT with an old text and a category
\* that is not valid
WrittenEdits ==
    {LineEdit(1, "REPLACE", <<"a">>, <<"b">>, "GRAMMAR", <<"g">>),
     LineEdit(2, "INSERT", <<>>, <<"c">>, "STYLE", <<"s", ")">>),
     LineEdit(1, "DELETE", <<"d">>, <<>>, "WORDINESS", <<>>),
     LineEdit(12, "INSERT", <<"x">>, <<"y">>, "BADCAT", <<"w">>)}

\* test_whitespace_tolerance_between_tokens
WideLine ==
    [text |-> <<"[", "1", "]", " ", " ", " ", "R", "E", "P", "L", "A", "C",
                "E", " ", " ", " ", "\"", "x", "\"", " ", " ", " ", "-",
                ">", " ", " ", " ", "\"", "y", "\"", " ", " ", " ", "[",
                "S", "T", "Y", "L", "E", "]", "(", "o", "k", ")">>,
     good |-> TRUE,
     edit |-> LineEdit(1, "REPLACE", <<"x">>, <<"y">>, "STYLE", <<"o", "k">>)]

\* a single-quoted old text with an escaped quote and a new text with an
\* escaped backslash
QuotedLine ==
    [text |-> <<"[", "2", "]", " ", "R", "E", "P", "L", "A", "C", "E", " ",
                "'", "i", "t", "\\", "'", "s", "'", " ", "-", ">", " ",
                "\"", "a", "\\", "\\", "n", "\"", " ", "[", "S", "T", "Y",
                "L", "E", "]", "(", ")">>,
     good |-> TRUE,
     edit |-> LineEdit(2, "REPLACE", <<"i", "t", "'", "s">>,
                       <<"a", "\\", "n">>, "STYLE", <<>>)]

GoodLines ==
    {[text |-> FormatLine(e), good |-> TRUE, edit |-> e] : e \in WrittenEdits}
        \cup {WideLine, QuotedLine}

\* lines that are not of the grammar: an old text without quotes
\* (test_malformed_backmatter_yields_empty_list_not_exception), the id 0 and
\* free text (test_parse_errors)
BadLines ==
    {[text |-> <<"[", "1", "]", " ", "R", "E", "P", "L", "A", "C", "E", " ",
                "a", " ", "-", ">", " ", "\"", "b", "\"", " ", "[", "G",
                "R", "A", "M", "M", "A", "R", "]", "(", "o", "o", "p", "s",
                ")">>,
      good |-> FALSE, edit |-> None],
     [text |-> <<"[", "0", "]", " ", "R", "E", "P", "L", "A", "C", "E", " ",
                "\"", "a", "\"", " ", "-", ">", " ", "\"", "b", "\"", " ",
                "[", "G", "R", "A", "M", "M", "A", "R", "]", "(", "g", ")">>,
      good |-> FALSE, edit |-> None],
     [text |-> <<"m", "a", "l", "f", "o", "r", "m", "e", "d", " ", "b", "a",
                "c", "k", "m", "a", "t", "t", "e", "r">>,
      good |-> FALSE, edit |-> None]}

LinePool == GoodLines \cup BadLines

MaxLines == 3

\* "\n".join(lines)
RECURSIVE JoinLines(_)
JoinLines(ls) ==
    IF ls = <<>> THEN <<>>
    ELSE IF Len(ls) = 1 THEN ls[1].text
    ELSE ls[1].text \o <<"\n">> \o JoinLines(Tail(ls))

\* test_blank_backmatter_returns_empty_list
BlankTexts == {<<>>, <<" ", " ", " ", "\n", " ", "\r", "\n">>}

InitBackmatter ==
    /\ \/ /\ lines \in SeqsUpTo(LinePool, MaxLines)
          /\ \E ending \in {<<>>, <<"\n">>} :
                backmatter_text = JoinLines(lines) \o ending
       \/ /\ lines = <<>>
          /\ backmatter_text \in BlankTexts
    /\ edited_text = <<>> /\ edits = <<>> /\ original_text = None
    /\ pc = "backmatter"
    /\ i = 0 /\ depth = 0 /\ matches = <<>>
    /\ result = None
    /\ payload = <<>> /\ unescaped = None
    /\ document = None /\ calls = <<>>
    /\ config = None /\ breakdown = None
    /\ revised_text = None /\ session = None
    /\ change_id_counter = 0 /\ decisions = <<>>

ParseBackmatter ==
    /\ pc = "backmatter"
    /\ result' = parse_backmatter(backmatter_text)
    /\ pc' = "backmatter_parsed"
    /\ UNCHANGED <<edited_text, edits, backmatter_text, original_text,
                   i, depth, matches, payload, unescaped>>
    /\ UNCHANGED extVars

NextBackmatter == ParseBackmatter

SpecBackmatter == InitBackmatter /\ [][NextBackmatter]_vars

----------------------------------------------------------------------------
(* Specification of the Edit record: one construction with any action and   *)
(* any old and new text                                                      *)

EditTexts == SeqsUpTo({"a", "b"}, MaxPayload)

InitEdit ==
    /\ edits \in {<<LineEdit(1, a, old, new, cat, <<>>)>> :
                     a \in EDIT_ACTIONS \cup {"MOVE"},
                     old \in EditTexts, new \in EditTexts,
                     cat \in {"STYLE", "BADCAT"}}
    /\ edited_text = <<>> /\ backmatter_text = <<>> /\ original_text = None
    /\ pc = "construct"
    /\ i = 0 /\ depth = 0 /\ matches = <<>>
    /\ result = None
    /\ payload = <<>> /\ unescaped = None
    /\ ExtIdle

ConstructEdit ==
    /\ pc = "construct"
    /\ result' = Edit(edits[1].id, edits[1].action, edits[1].old, edits[1].new,
                      edits[1].category, edits[1].comment)
    /\ pc' = "constructed"
    /\ UNCHANGED <<edited_text, edits, backmatter_text, original_text,
                   i, depth, matches, payload, unescaped>>
    /\ UNCHANGED extVars

NextEdit == ConstructEdit

SpecEdit == InitEdit /\ [][NextEdit]_vars

----------------------------------------------------------------------------
(* Specification of parse_document called with a raw document str, as       *)
(* GrammarLeeReward.__call__ and test_rewards.py call it: the str is the    *)
(* pred argument and has none of the attributes parse_document reads         *)

DELIMITER == <<"-", "-", "-", " ", "B", "A", "C", "K", "M", "A", "T", "T", "E", "R",
      " ", "-", "-", "-">>

\* f"{prompt}\n\n--- BACKMATTER ---\n{backmatter}"
FormatDocument(inline, backmatter) ==
    inline \o <<"\n", "\n">> \o DELIMITER \o <<"\n">> \o backmatter

\* the backmatter blocks of test_rewards.py: a well-formed line, free text,
\* nothing, and a block that holds the delimiter line again
DocumentBackmatters ==
    {FormatLine(LineEdit(1, "REPLACE", <<"a">>, <<"b">>, "GRAMMAR", <<"g">>)),
     <<"m", "a", "l", "f", "o", "r", "m", "e", "d", " ", "b", "a", "c",
       "k", "m", "a", "t", "t", "e", "r">>,
     <<>>,
     <<"x", "\n">> \o DELIMITER \o <<"\n", "y">>}

DocumentInlines == TextsUpTo(DocPieces, MaxDocPieces)

Documents ==
    DocumentInlines
        \cup {FormatDocument(t, b) : t \in DocumentInlines,
                                     b \in DocumentBackmatters}

\* getattr(pred, name, default) on a str: none of the three attributes exists
InitDocument ==
    /\ document \in Documents
    /\ edited_text = None /\ edits = <<>> /\ backmatter_text = None
    /\ original_text = None
    /\ pc = "call"
    /\ i = 0 /\ depth = 0 /\ matches = <<>>
    /\ result = None
    /\ payload = <<>> /\ unescaped = None
    /\ calls = <<>> /\ config = None /\ breakdown = None
    /\ revised_text = None /\ session = None
    /\ change_id_counter = 0 /\ decisions = <<>>
    /\ lines = <<>>

NextDocument == ParseDocumentReturn

SpecDocument == InitDocument /\ [][NextDocument]_vars

----------------------------------------------------------------------------
(* Rewards: components.py, aggregate.py and weights.py.  A score is the     *)
(* fraction [num, den] of the two integers the code divides; the weights    *)
(* are in hundredths.                                                        *)

\* config.get(key, default)
Get(cfg, key, default) == IF key \in DOMAIN cfg THEN cfg[key] ELSE default

\* dict.update
Merge(f, g) ==
    [k \in DOMAIN f \cup DOMAIN g |-> IF k \in DOMAIN g THEN g[k] ELSE f[k]]

EmptyDict == [k \in {} |-> 0]

DEFAULT_WEIGHTS ==
    [has_backmatter |-> 10, no_parse_errors |-> 15, anchors_covered |-> 30,
     action_consistency |-> 25, valid_categories |-> 10,
     comment_length |-> 10, no_duplicate_ids |-> 10]

DEFAULT_CONFIG ==
    [gate_on_parse_errors |-> TRUE, gate_on_duplicate_ids |-> FALSE,
     gate_on_extreme_comments |-> TRUE, max_comment_length |-> 100,
     extreme_comment_length |-> 200, weights |-> DEFAULT_WEIGHTS]

Fraction(n, d) == [num |-> n, den |-> d]

ComponentScore(name, value) == [name |-> name, value |-> value]

\* len(e.comment or "")
CommentLen(e) == IF e.comment = None THEN 0 ELSE Len(e.comment)

score_has_backmatter(pr) ==
    ComponentScore("has_backmatter",
        IF ~IsBlank(pr.backmatter_text) THEN Fraction(1, 1) ELSE Fraction(0, 1))

score_no_parse_errors(pr) ==
    ComponentScore("no_parse_errors",
        IF Len(pr.errors) > 0 THEN Fraction(0, 1) ELSE Fraction(1, 1))

score_anchors_covered(pr) ==
    ComponentScore("anchors_covered",
        IF pr.anchors = <<>> THEN Fraction(1, 1)
        ELSE Fraction(Cardinality(IdSet(pr.anchors) \cap IdSet(pr.edits)),
                      Cardinality(IdSet(pr.anchors))))

\* the branch the three per-edit scores share when there are no edits
NoEditsScore(pr) ==
    IF pr.anchors # <<>> THEN Fraction(0, 1) ELSE Fraction(1, 1)

score_action_consistency(pr) ==
    LET ok(e) == e.consistency_ok IN
    ComponentScore("action_consistency",
        IF pr.edits = <<>> THEN NoEditsScore(pr)
        ELSE Fraction(Cardinality({k \in 1..Len(pr.edits) : ok(pr.edits[k])}),
                      Len(pr.edits)))

score_valid_categories(pr) ==
    LET ok(e) == e.is_valid_category IN
    ComponentScore("valid_categories",
        IF pr.edits = <<>> THEN NoEditsScore(pr)
        ELSE Fraction(Cardinality({k \in 1..Len(pr.edits) : ok(pr.edits[k])}),
                      Len(pr.edits)))

score_comment_length(pr, max_length) ==
    LET ok(e) == CommentLen(e) <= max_length IN
    ComponentScore("comment_length",
        IF pr.edits = <<>> THEN NoEditsScore(pr)
        ELSE Fraction(Cardinality({k \in 1..Len(pr.edits) : ok(pr.edits[k])}),
                      Len(pr.edits)))

\* a score that counts the repeated ids of the edits only
score_no_duplicate_ids_edits_only(pr) ==
    ComponentScore("no_duplicate_ids",
        IF Len(pr.anchors) + Len(pr.edits) = 0 THEN Fraction(1, 1)
        ELSE Fraction(Len(pr.anchors) + Cardinality(IdSet(pr.edits)),
                      Len(pr.anchors) + Len(pr.edits)))

score_no_duplicate_ids(pr) ==
    ComponentScore("no_duplicate_ids",
        IF Len(pr.anchors) + Len(pr.edits) = 0 THEN Fraction(1, 1)
        ELSE Fraction(Cardinality(IdSet(pr.anchors))
                          + Cardinality(IdSet(pr.edits)),
                      Len(pr.anchors) + Len(pr.edits)))

compute_component_scores(pr, cfg) ==
    [has_backmatter     |-> score_has_backmatter(pr),
     no_parse_errors    |-> score_no_parse_errors(pr),
     anchors_covered    |-> score_anchors_covered(pr),
     action_consistency |-> score_action_consistency(pr),
     valid_categories   |-> score_valid_categories(pr),
     comment_length     |->
         score_comment_length(pr, Get(cfg, "max_comment_length", 100)),
     no_duplicate_ids   |-> score_no_duplicate_ids(pr)]

to_list(scores) ==
    <<scores.has_backmatter, scores.no_parse_errors, scores.anchors_covered,
      scores.action_consistency, scores.valid_categories,
      scores.comment_length, scores.no_duplicate_ids>>

RewardBreakdown(parse_result, gated, components, reward, notes) ==
    [parse_result |-> parse_result, gated |-> gated,
     components |-> components, reward |-> reward, notes |-> notes]

RECURSIVE SumOver(_, _)
SumOver(f, k) == IF k = 0 THEN 0 ELSE f[k] + SumOver(f, k - 1)

RECURSIVE ProductOver(_, _)
ProductOver(f, k) == IF k = 0 THEN 1 ELSE f[k] * ProductOver(f, k - 1)

\* clamp01 of a fraction with a positive denominator
clamp01(x) ==
    IF x.num < 0 THEN Fraction(0, 1)
    ELSE IF x.num > x.den THEN Fraction(1, 1)
    ELSE x

\* aggregate.py lines 63-82: the weighted average of the components
WeightedBreakdown(components, cfg) ==
    LET weights == Get(cfg, "weights", EmptyDict)
        n       == Len(components)
        w       == [k \in 1..n |-> Get(weights, components[k].name, 100)]
        dens    == [k \in 1..n |-> components[k].value.den]
        D       == ProductOver(dens, n)
        total_weighted ==
            SumOver([k \in 1..n |->
                        w[k] * components[k].value.num * (D \div dens[k])], n)
        total_weight == SumOver(w, n)
        reward  == IF total_weight > 0
                   THEN clamp01(Fraction(total_weighted, total_weight * D))
                   ELSE Fraction(0, 1)
        low     == {components[k].name : k \in
                       {q \in 1..n : 2 * components[q].value.num
                                        < components[q].value.den}}
        notes   == IF 10 * reward.num < 3 * reward.den /\ low # {}
                   THEN <<[text |-> "Low scoring components", names |-> low]>>
                   ELSE <<>>
    IN RewardBreakdown(None, FALSE, components, reward, notes)

\* ComponentScores.compute
compute(scores, cfg) ==
    IF Get(cfg, "gate_on_parse_errors", TRUE)
       /\ scores.no_parse_errors.value.num = 0
    THEN RewardBreakdown(None, TRUE, to_list(scores), Fraction(0, 1),
                         <<[text |-> "Gated due to parse errors"]>>)
    ELSE IF Get(cfg, "gate_on_duplicate_ids", FALSE)
            /\ scores.no_duplicate_ids.value.num
                   < scores.no_duplicate_ids.value.den
    THEN RewardBreakdown(None, TRUE, to_list(scores), Fraction(0, 1),
                         <<[text |-> "Gated due to duplicate IDs"]>>)
    ELSE WeightedBreakdown(to_list(scores), cfg)

compute_reward(parse_result, cfg) ==
    LET scores == compute_component_scores(parse_result, cfg)
        extreme_threshold == Get(cfg, "extreme_comment_length", 200)
    IN IF Get(cfg, "gate_on_extreme_comments", TRUE)
          /\ \E k \in 1..Len(parse_result.edits) :
                CommentLen(parse_result.edits[k]) > extreme_threshold
       THEN RewardBreakdown(parse_result, TRUE, to_list(scores), Fraction(0, 1),
                <<[text |-> "Gated due to extremely long comment",
                   threshold |-> extreme_threshold]>>)
       ELSE LET b == compute(scores, cfg) IN
            [b EXCEPT !.parse_result = parse_result,
                      !.notes =
                          IF Len(parse_result.edits) = 0
                             /\ Len(parse_result.anchors) > 0
                          THEN Append(@,
                              [text |-> "Anchors present but no edits generated"])
                          ELSE @]

----------------------------------------------------------------------------
(* Specification of compute_reward: one call on a ParseResult and a config  *)

MaxRewardEdits == 2

\* a comment of n characters
CommentOf(n) == [k \in 1..n |-> "x"]

\* the edits of the scored results: ids 1 and 2, comments of 0, 3 and 201
\* characters and no comment, flags set and not set
RewardEdits ==
    {[id |-> 1, comment |-> <<>>, consistency_ok |-> TRUE,
      is_valid_category |-> TRUE],
     [id |-> 1, comment |-> CommentOf(3), consistency_ok |-> FALSE,
      is_valid_category |-> TRUE],
     [id |-> 2, comment |-> None, consistency_ok |-> TRUE,
      is_valid_category |-> FALSE],
     [id |-> 2, comment |-> CommentOf(201), consistency_ok |-> TRUE,
      is_valid_category |-> TRUE]}

RewardInlines ==
    {<<>>, <<"[", "b", ":", ":", "1", "]">>,
     <<"[", "b", ":", ":", "1", "]", "[", ":", ":", "2", "]">>,
     <<"[", "b", ":", ":", "1", "]", "[", "b", ":", ":", "1", "]">>}

\* the ParseResult parse_document returns for the inline text t and the edits
\* es, without or with a reconstruction error
RewardResults ==
    {[inline_text     |-> t,
      backmatter_text |-> b,
      final_text      |-> apply_inline(t),
      anchors         |-> parse_inline_anchors(t),
      edits           |-> es,
      errors          |-> (IF es # <<>> /\ Len(parse_inline_anchors(t)) # Len(es)
                           THEN <<CountError>> ELSE <<>>)
                          \o (IF es # <<>>
                                 /\ IdSet(parse_inline_anchors(t)) # IdSet(es)
                              THEN <<IdError>> ELSE <<>>)
                          \o r] :
        t \in RewardInlines, es \in SeqsUpTo(RewardEdits, MaxRewardEdits),
        b \in {<<>>, <<"x">>},
        r \in {<<>>, <<[msg |-> "Failed to reconstruct original text from edits."]>>}}

GateKeys ==
    {"gate_on_parse_errors", "gate_on_duplicate_ids",
     "gate_on_extreme_comments"}

\* every choice of present gate keys and of their values
GateConfigs == UNION {[K -> BOOLEAN] : K \in SUBSET GateKeys}

\* a dict of gates alone or with lowered thresholds, and load_config() with
\* gates overwritten
Configs ==
    {Merge(t, g) : g \in GateConfigs,
                   t \in {EmptyDict, [extreme_comment_length |-> 2,
                                      max_comment_length |-> 1]}}
        \cup {Merge(DEFAULT_CONFIG, g) : g \in GateConfigs}

InitReward ==
    /\ result \in RewardResults
    /\ (result.edits = <<>> \/ result.backmatter_text # <<>>)
    /\ (result.errors # <<>> /\ result.errors[Len(result.errors)].msg
            = "Failed to reconstruct original text from edits.")
           => result.edits # <<>>
    /\ config \in Configs
    /\ breakdown = None
    /\ edited_text = <<>> /\ edits = <<>> /\ backmatter_text = <<>>
    /\ original_text = None
    /\ pc = "reward"
    /\ i = 0 /\ depth = 0 /\ matches = <<>>
    /\ payload = <<>> /\ unescaped = None
    /\ document = None /\ calls = <<>>
    /\ revised_text = None /\ session = None
    /\ change_id_counter = 0 /\ decisions = <<>>
    /\ lines = <<>>

ComputeReward ==
    /\ pc = "reward"
    /\ breakdown' = compute_reward(result, config)
    /\ pc' = "rewarded"
    /\ UNCHANGED <<edited_text, edits, backmatter_text, original_text,
                   i, depth, matches, result, payload, unescaped>>
    /\ UNCHANGED <<document, calls, config, revised_text, session,
                   change_id_counter, decisions, lines>>

NextReward == ComputeReward

SpecReward == InitReward /\ [][NextReward]_vars

----------------------------------------------------------------------------
(* Change detection: editor.py, with difflib.SequenceMatcher as            *)
(* detect_changes uses it (autojunk off, no junk)                          *)

\* the characters of the model that \w matches and that \s matches: every
\* other character is punctuation
WordChars == {"a", "b", "c", "d", "x", "y", "_"} \cup Digits

Whitespace == {" ", "\t", "\r", "\n"}

\* end of the run of word characters that starts at offset p
RECURSIVE WordEnd(_, _)
WordEnd(s, p) ==
    IF p < Len(s) /\ At(s, p) \in WordChars THEN WordEnd(s, p + 1) ELSE p

\* re.finditer(r'\b\w+\b|\S', text) from offset p: (token, start, end)
RECURSIVE TokensFrom(_, _)
TokensFrom(s, p) ==
    IF p >= Len(s) THEN <<>>
    ELSE IF At(s, p) \in Whitespace THEN TokensFrom(s, p + 1)
    ELSE IF At(s, p) \in WordChars
         THEN <<<<Slice(s, p, WordEnd(s, p)), p, WordEnd(s, p)>>>>
                  \o TokensFrom(s, WordEnd(s, p))
         ELSE <<<<<<At(s, p)>>, p, p + 1>>>> \o TokensFrom(s, p + 1)

tokenize_with_positions(text) == TokensFrom(text, 0)

\* SequenceMatcher.find_longest_match: the longest block a[x:x+k] == b[y:y+k]
\* in a[alo:ahi], b[blo:bhi]; of the longest the one that starts earliest in
\* a, and of those the one that starts earliest in b
find_longest_match(a, b, alo, ahi, blo, bhi) ==
    LET blocks == {m \in (alo..(ahi - 1)) \X (blo..(bhi - 1))
                             \X (1..(ahi - alo)) :
                      /\ m[1] + m[3] <= ahi /\ m[2] + m[3] <= bhi
                      /\ \A q \in 0..(m[3] - 1) :
                            a[m[1] + q + 1] = b[m[2] + q + 1]}
    IN IF blocks = {} THEN <<alo, blo, 0>>
       ELSE CHOOSE m \in blocks : \A o \in blocks :
                \/ m[3] > o[3]
                \/ m[3] = o[3] /\ m[1] < o[1]
                \/ m[3] = o[3] /\ m[1] = o[1] /\ m[2] <= o[2]

\* the blocks get_matching_blocks collects from its queue, sorted
RECURSIVE MatchingBlocksIn(_, _, _, _, _, _)
MatchingBlocksIn(a, b, alo, ahi, blo, bhi) ==
    LET m == find_longest_match(a, b, alo, ahi, blo, bhi) IN
    IF m[3] = 0 THEN <<>>
    ELSE (IF alo < m[1] /\ blo < m[2]
          THEN MatchingBlocksIn(a, b, alo, m[1], blo, m[2]) ELSE <<>>)
         \o <<m>>
         \o (IF m[1] + m[3] < ahi /\ m[2] + m[3] < bhi
             THEN MatchingBlocksIn(a, b, m[1] + m[3], ahi, m[2] + m[3], bhi)
             ELSE <<>>)

\* adjacent blocks are collapsed into one
RECURSIVE CollapseFrom(_, _, _)
CollapseFrom(bs, n, cur) ==
    IF n > Len(bs) THEN (IF cur[3] > 0 THEN <<cur>> ELSE <<>>)
    ELSE IF cur[1] + cur[3] = bs[n][1] /\ cur[2] + cur[3] = bs[n][2]
         THEN CollapseFrom(bs, n + 1, <<cur[1], cur[2], cur[3] + bs[n][3]>>)
         ELSE (IF cur[3] > 0 THEN <<cur>> ELSE <<>>)
                  \o CollapseFrom(bs, n + 1, bs[n])

get_matching_blocks(a, b) ==
    CollapseFrom(MatchingBlocksIn(a, b, 0, Len(a), 0, Len(b)), 1, <<0, 0, 0>>)
        \o <<<<Len(a), Len(b), 0>>>>

RECURSIVE OpcodesFrom(_, _, _, _)
OpcodesFrom(bs, n, ci, cj) ==
    IF n > Len(bs) THEN <<>>
    ELSE LET ai   == bs[n][1]
             bj   == bs[n][2]
             size == bs[n][3]
             tag  == IF ci < ai /\ cj < bj THEN "replace"
                     ELSE IF ci < ai THEN "delete"
                     ELSE IF cj < bj THEN "insert"
                     ELSE ""
         IN (IF tag # "" THEN <<<<tag, ci, ai, cj, bj>>>> ELSE <<>>)
            \o (IF size > 0
                THEN <<<<"equal", ai, ai + size, bj, bj + size>>>> ELSE <<>>)
            \o OpcodesFrom(bs, n + 1, ai + size, bj + size)

get_opcodes(a, b) == OpcodesFrom(get_matching_blocks(a, b), 1, 0, 0)

Change(id, type, original, revised, start_pos, end_pos) ==
    [id |-> id, type |-> type, original |-> original, revised |-> revised,
     start_pos |-> start_pos, end_pos |-> end_pos, annotation |-> None]

\* lines 38-80: the loop over the opcodes from the n-th on; counter is
\* _change_id_counter
RECURSIVE ChangesFrom(_, _, _, _, _, _, _)
ChangesFrom(ops, n, counter, original, revised, original_words, revised_words) ==
    IF n > Len(ops) THEN <<>>
    ELSE LET tag == ops[n][1]
             i1  == ops[n][2]
             i2  == ops[n][3]
             j1  == ops[n][4]
             j2  == ops[n][5]
             start_pos == IF i1 < i2 THEN original_words[i1 + 1][2]
                          ELSE IF i1 < Len(original_words)
                               THEN original_words[i1 + 1][2]
                               ELSE Len(original)
             end_pos == IF i1 < i2 THEN original_words[i2][3] ELSE start_pos
             original_segment == IF i1 < i2
                                 THEN Slice(original, start_pos, end_pos)
                                 ELSE <<>>
             revised_segment ==
                 IF j1 < j2
                 THEN Slice(revised,
                            IF j1 < Len(revised_words)
                            THEN revised_words[j1 + 1][2] ELSE Len(revised),
                            IF j2 <= Len(revised_words)
                            THEN revised_words[j2][3] ELSE Len(revised))
                 ELSE <<>>
             change_type ==
                 IF original_segment # <<>> /\ revised_segment # <<>>
                 THEN "replace"
                 ELSE IF original_segment # <<>> THEN "delete"
                 ELSE IF revised_segment # <<>> THEN "insert"
                 ELSE ""
         IN IF tag = "equal" \/ change_type = ""
            THEN ChangesFrom(ops, n + 1, counter, original, revised,
                             original_words, revised_words)
            ELSE <<Change(counter + 1, change_type, original_segment,
                          revised_segment, start_pos, end_pos)>>
                 \o ChangesFrom(ops, n + 1, counter + 1, original, revised,
                                original_words, revised_words)

\* a call that goes on from the counter the last call left
keep_change_id_counter(counter) == counter

\* line 25: the counter is reset for the new session
reset_change_id_counter(counter) == 0

TokenList(words) == [k \in 1..Len(words) |-> words[k][1]]

\* detect_changes: the session it returns
detect_changes(counter, original, revised) ==
    LET original_words == tokenize_with_positions(original)
        revised_words  == tokenize_with_positions(revised)
        ops == get_opcodes(TokenList(original_words), TokenList(revised_words))
    IN [original_text |-> original,
        revised_text  |-> revised,
        changes       |-> ChangesFrom(ops, 1, reset_change_id_counter(counter),
                                      original, revised, original_words,
                                      revised_words)]

\* decisions.get(change.id, "reject")
DecisionFor(ds, id) == IF id \in DOMAIN ds THEN ds[id] ELSE "reject"

\* sorted(changes, key=start_pos): a stable insertion sort
RECURSIVE InsertByStart(_, _)
InsertByStart(sorted, c) ==
    IF sorted = <<>> THEN <<c>>
    ELSE IF sorted[Len(sorted)].start_pos <= c.start_pos
         THEN Append(sorted, c)
         ELSE Append(InsertByStart(SubSeq(sorted, 1, Len(sorted) - 1), c),
                     sorted[Len(sorted)])

RECURSIVE SortedByStart(_, _)
SortedByStart(cs, n) ==
    IF n = 0 THEN <<>> ELSE InsertByStart(SortedByStart(cs, n - 1), cs[n])

\* lines 147-181: the loop over the sorted changes from the n-th on
RECURSIVE ApplyFrom(_, _, _, _, _)
ApplyFrom(text, cs, ds, n, last_pos) ==
    IF n > Len(cs)
    THEN (IF last_pos < Len(text) THEN Slice(text, last_pos, Len(text))
          ELSE <<>>)
    ELSE LET c      == cs[n]
             before == IF c.start_pos > last_pos
                       THEN Slice(text, last_pos, c.start_pos) ELSE <<>>
             accept == DecisionFor(ds, c.id) = "accept"
             piece  == IF accept
                       THEN (IF c.type \in {"insert", "replace"}
                             THEN c.revised ELSE <<>>)
                       ELSE (IF c.type \in {"delete", "replace"}
                             THEN c.original ELSE <<>>)
             next   == IF c.type = "insert" THEN c.start_pos
                       ELSE IF c.type \in {"delete", "replace"} THEN c.end_pos
                       ELSE last_pos
         IN before \o piece \o ApplyFrom(text, cs, ds, n + 1, next)

\* an apply that tries the accept-all path before the reject-all path
apply_user_decisions_accept_first(s, ds) ==
    IF \A k \in 1..Len(s.changes) : DecisionFor(ds, s.changes[k].id) = "accept"
    THEN s.revised_text
    ELSE IF \A k \in 1..Len(s.changes) :
                DecisionFor(ds, s.changes[k].id) = "reject"
    THEN s.original_text
    ELSE ApplyFrom(s.original_text,
                   SortedByStart(s.changes, Len(s.changes)), ds, 1, 0)

apply_user_decisions(s, ds) ==
    IF \A k \in 1..Len(s.changes) : DecisionFor(ds, s.changes[k].id) = "reject"
    THEN s.original_text
    ELSE IF \A k \in 1..Len(s.changes) :
                DecisionFor(ds, s.changes[k].id) = "accept"
    THEN s.revised_text
    ELSE ApplyFrom(s.original_text,
                   SortedByStart(s.changes, Len(s.changes)), ds, 1, 0)

----------------------------------------------------------------------------
(* Specification of one ChangeDetector: detect_changes on the two texts at *)
(* hand, again in either role, and apply_user_decisions on the session     *)

MaxEditorPieces == 2

EditorPieces == {<<"a">>, <<" ", "b">>, <<".">>, <<" ">>}

EditorTexts == TextsUpTo(EditorPieces, MaxEditorPieces)

\* the dicts a user can pass for a session: any of its changes may be left
\* without a decision
DecisionsFor(s) ==
    UNION {[S -> {"accept", "reject"}] :
               S \in SUBSET {s.changes[k].id : k \in 1..Len(s.changes)}}

\* _change_id_counter after a call that made the session s
CounterAfter(counter, s) ==
    IF s.changes = <<>> THEN reset_change_id_counter(counter)
    ELSE s.changes[Len(s.changes)].id

InitEditor ==
    /\ original_text \in EditorTexts
    /\ revised_text \in EditorTexts
    /\ session = None
    /\ change_id_counter = 0
    /\ decisions = <<>>
    /\ result = None
    /\ pc = "editor"
    /\ edited_text = <<>> /\ edits = <<>> /\ backmatter_text = <<>>
    /\ i = 0 /\ depth = 0 /\ matches = <<>>
    /\ payload = <<>> /\ unescaped = None
    /\ document = None /\ calls = <<>>
    /\ config = None /\ breakdown = None
    /\ lines = <<>>

\* detector.detect_changes(original, revised)
DetectChanges ==
    /\ pc = "editor"
    /\ session' = detect_changes(change_id_counter, original_text,
                                 revised_text)
    /\ change_id_counter' = CounterAfter(change_id_counter, session')
    /\ pc' = "detected"
    /\ UNCHANGED <<edited_text, edits, backmatter_text, original_text,
                   i, depth, matches, result, payload, unescaped>>
    /\ UNCHANGED <<document, calls, config, breakdown, revised_text,
                   decisions, lines>>

\* a later call on the same detector, each text in either role
DetectAgain ==
    /\ pc \in {"detected", "applied"}
    /\ \E o \in {original_text, revised_text} :
       \E r \in {original_text, revised_text} :
           session' = detect_changes(change_id_counter, o, r)
    /\ change_id_counter' = CounterAfter(change_id_counter, session')
    /\ decisions' = <<>>
    /\ result' = None
    /\ pc' = "detected"
    /\ UNCHANGED <<edited_text, edits, backmatter_text, original_text,
                   i, depth, matches, payload, unescaped>>
    /\ UNCHANGED <<document, calls, config, breakdown, revised_text, lines>>

\* detector.apply_user_decisions(session, decisions)
ApplyUserDecisions ==
    /\ pc = "detected"
    /\ \E ds \in DecisionsFor(session) :
           /\ decisions' = ds
           /\ result' = apply_user_decisions(session, ds)
    /\ pc' = "applied"
    /\ UNCHANGED <<edited_text, edits, backmatter_text, original_text,
                   i, depth, matches, payload, unescaped>>
    /\ UNCHANGED <<document, calls, config, breakdown, revised_text, session,
                   change_id_counter, lines>>

NextEditor == DetectChanges \/ DetectAgain \/ ApplyUserDecisions

SpecEditor == InitEditor /\ [][NextEditor]_vars

----------------------------------------------------------------------------
(* Specification of parse_document called with a producer object that may  *)
(* lack attributes, with edits that differ in old and in new text and with *)
(* original texts that end in a line break                                 *)

MaxPredPieces == 2
MaxPredEdits == 2

PredPieces ==
    {<<"[", "b", ":", ":", "1", "]">>, <<"[", ":", ":", "2", "]">>, <<"\n">>}

PredTexts == TextsUpTo(PredPieces, MaxPredPieces)

PredEditPool ==
    {[id |-> n, old |-> t.old, new |-> t.new,
      category |-> "GRAMMAR", comment |-> <<>>] :
        n \in {1, 2},
        t \in {[old |-> <<"a">>, new |-> <<"b">>],
               [old |-> <<"c">>, new |-> <<"b">>],
               [old |-> <<"a">>, new |-> <<"c">>]}}

PredEditSeqs == SeqsUpTo(PredEditPool, MaxPredEdits)

PredOriginals == {None, <<"a">>, <<"a", "\n">>, <<"a", "\r", "\n">>}

\* the producer objects: each has edited_text; edits and backmatter_text may
\* be missing
Preds ==
    {[edited_text |-> t] : t \in PredTexts}
        \cup {[edited_text |-> t, edits |-> es] :
                  t \in PredTexts, es \in PredEditSeqs}
        \cup {[edited_text |-> t, edits |-> <<>>, backmatter_text |-> <<"x">>] :
                  t \in PredTexts}
        \cup {[edited_text |-> LongIdText]}

\* getattr(pred, name, default)
GetAttr(pred, name, default) ==
    IF name \in DOMAIN pred THEN pred[name] ELSE default

InitPred ==
    /\ document \in Preds
    /\ original_text \in PredOriginals
    /\ document.edited_text = LongIdText => original_text = None
    /\ edited_text = None /\ edits = <<>> /\ backmatter_text = None
    /\ pc = "pred"
    /\ i = 0 /\ depth = 0 /\ matches = <<>>
    /\ result = None
    /\ payload = <<>> /\ unescaped = None
    /\ calls = <<>> /\ config = None /\ breakdown = None
    /\ revised_text = None /\ session = None
    /\ change_id_counter = 0 /\ decisions = <<>>
    /\ lines = <<>>

\* lines 166-168: the three attributes are read, each with its default
ReadPred ==
    /\ pc = "pred"
    /\ edited_text' = OrEmpty(GetAttr(document, "edited_text", <<>>))
    /\ edits' = GetAttr(document, "edits", <<>>)
    /\ backmatter_text' = OrEmpty(GetAttr(document, "backmatter_text", <<>>))
    /\ pc' = "call"
    /\ UNCHANGED <<original_text, i, depth, matches, result, payload,
                   unescaped>>
    /\ UNCHANGED extVars

NextPred == ReadPred \/ ParseDocumentReturn \/ ParseDocumentRaise

SpecPred == InitPred /\ [][NextPred]_vars

----------------------------------------------------------------------------
(* load_config (weights.py).  A dict is an object: the value of "weights"  *)
(* in a config is a reference into the heap of weight dicts, so that the    *)
(* shallow copy and the two updates act on the objects the code acts on.    *)

\* lines 32-45 for the user dict that yaml.safe_load(f) or {} gives: the
\* returned config with its weights object written out
load_config(user_config) ==
    LET heap0    == [default_weights |-> DEFAULT_CONFIG.weights,
                     user_weights    |-> Get(user_config, "weights", EmptyDict)]
        \* line 32: DEFAULT_CONFIG.copy() copies the top level only
        config0  == [DEFAULT_CONFIG EXCEPT !.weights = "default_weights"]
        user_top == IF "weights" \in DOMAIN user_config
                    THEN [user_config EXCEPT !.weights = "user_weights"]
                    ELSE user_config
        \* line 41: config.update(user_config)
        config1  == Merge(config0, user_top)
        \* lines 42-43: config["weights"].update(user_config["weights"])
        heap1    == IF "weights" \in DOMAIN user_config
                    THEN [heap0 EXCEPT ![config1.weights] =
                              Merge(heap0[config1.weights],
                                    heap0[user_top.weights])]
                    ELSE heap0
    IN [config1 EXCEPT !.weights = heap1[config1.weights]]

\* the keys a user file sets, each with a value that is not the default
UserTopValue(k) ==
    CASE k = "gate_on_parse_errors" -> FALSE
      [] k = "gate_on_duplicate_ids" -> TRUE
      [] k = "max_comment_length" -> 50

UserWeightValue(w) ==
    CASE w = "has_backmatter" -> 50
      [] w = "anchors_covered" -> 20
      [] w = "comment_length" -> 0

UserTops ==
    {[k \in K |-> UserTopValue(k)] :
        K \in SUBSET {"gate_on_parse_errors", "gate_on_duplicate_ids",
                      "max_comment_length"}}

UserWeights ==
    {[w \in K |-> UserWeightValue(w)] :
        K \in SUBSET {"has_backmatter", "anchors_covered", "comment_length"}}

\* the dicts a user file holds, with and without a weights section
UserConfigs ==
    UserTops \cup {Merge(t, [weights |-> w]) : t \in UserTops, w \in UserWeights}

\* document is the content of the user file
InitConfig ==
    /\ document \in UserConfigs
    /\ config = None
    /\ pc = "load"
    /\ breakdown = None
    /\ edited_text = <<>> /\ edits = <<>> /\ backmatter_text = <<>>
    /\ original_text = None
    /\ i = 0 /\ depth = 0 /\ matches = <<>>
    /\ result = None
    /\ payload = <<>> /\ unescaped = None
    /\ calls = <<>>
    /\ revised_text = None /\ session = None
    /\ change_id_counter = 0 /\ decisions = <<>>
    /\ lines = <<>>

\* load_config() and load_config(path) for a path that does not exist
LoadDefaults ==
    /\ pc = "load"
    /\ config' = DEFAULT_CONFIG
    /\ pc' = "loaded_defaults"
    /\ UNCHANGED <<edited_text, edits, backmatter_text, original_text,
                   i, depth, matches, result, payload, unescaped>>
    /\ UNCHANGED <<document, calls, breakdown, revised_text, session,
                   change_id_counter, decisions, lines>>

\* load_config(path) for the path of the user file
LoadConfig ==
    /\ pc = "load"
    /\ config' = load_config(document)
    /\ pc' = "loaded"
    /\ UNCHANGED <<edited_text, edits, backmatter_text, original_text,
                   i, depth, matches, result, payload, unescaped>>
    /\ UNCHANGED <<document, calls, breakdown, revised_text, session,
                   change_id_counter, decisions, lines>>

NextConfig == LoadDefaults \/ LoadConfig

SpecConfig == InitConfig /\ [][NextConfig]_vars

----------------------------------------------------------------------------
(* Properties *)

Returned == pc = "returned"

\* the text s with the span of anchors[k] replaced by subs[k], in order
RECURSIVE SubstituteSpans(_, _, _, _, _)
SubstituteSpans(s, anchors, subs, k, last) ==
    IF k > Len(anchors) THEN Slice(s, last, Len(s))
    ELSE Slice(s, last, anchors[k].span[1]) \o subs[k]
             \o SubstituteSpans(s, anchors, subs, k + 1, anchors[k].span[2])

\* t is s without its trailing run of CR/LF
IsCRLFStripped(t, s) ==
    /\ Len(t) <= Len(s)
    /\ SubSeq(s, 1, Len(t)) = t
    /\ \A k \in (Len(t) + 1)..Len(s) : s[k] \in {"\r", "\n"}
    /\ (t # <<>> => t[Len(t)] \notin {"\r", "\n"})

\* every text obtained by replacing each anchor by the old text, as it
\* stands, of an edit with the anchor's ID, then stripping trailing CR/LF
RebuiltFromOld(s, anchors, es) ==
    LET choices == {f \in [1..Len(anchors) -> 1..Len(es)] :
                        \A k \in 1..Len(anchors) : es[f[k]].id = anchors[k].id}
    IN {RStripCRLF(SubstituteSpans(s, anchors,
                       [k \in 1..Len(anchors) |-> es[choices_f[k]].old], 1, 0)) :
            choices_f \in choices}

\* C1: parse_document is total: every call returns a ParseResult, none
\* raises, whatever the edited text, the edits and the original text are.
C1_NeverRaises == pc # "raised"

\* C2: iter_inline_matches yields a match only at a '[' met while the depth
\* counter is 0; the counter is never negative and a yielded match leaves it
\* unchanged; '[a[b::1]' yields no match.
C2_EmitOnlyAtDepthZero ==
    /\ [](depth >= 0)
    /\ [][Len(matches') > Len(matches) =>
            /\ depth = 0
            /\ At(edited_text, i) = "["
            /\ depth' = depth
            /\ matches'[Len(matches')].start = i]_vars
    /\ [](edited_text = NestedToken => matches = <<>>)

\* a scan that yielded an anchor and passed over a well-formed token that
\* it met at a depth above 0
C2_Witness ==
    /\ pc = "parsed"
    /\ matches # <<>>
    /\ \E q \in 0..(Len(edited_text) - 1) :
          /\ INLINE_TOKEN_RE(edited_text, q) # NoMatch
          /\ \A k \in 1..Len(matches) : matches[k].start # q

\* offset of the first digit of the id inside the span of anchor a
IdOffset(a) == a.span[1] + 1 + Len(a.new_text) + 2

C4_RenderIsConcatenation ==
    pc = "rendered" =>
        LET as   == result.anchors
            subs == [k \in 1..Len(as) |-> unescape_minimal(as[k].new_text)]
        IN /\ IsCRLFStripped(result.final_text,
                             SubstituteSpans(edited_text, as, subs, 1, 0))
           /\ as = <<>> => IsCRLFStripped(result.final_text, edited_text)

\* two anchors were rendered and a run of line breaks was removed
C4_Witness ==
    /\ pc = "rendered"
    /\ Len(result.anchors) >= 2
    /\ Len(edited_text) >= 2
    /\ edited_text[Len(edited_text)] = "\n"
    /\ edited_text[Len(edited_text) - 1] = "\n"

\* the one-pass reading of the escape table: each escape is replaced once and
\* what a replacement produces is not read again
RECURSIVE UnescapeOnePass(_, _)
UnescapeOnePass(s, k) ==
    IF k > Len(s) THEN <<>>
    ELSE IF s[k] = "\\" /\ k < Len(s)
            /\ s[k + 1] \in {"\\", "\"", "'", "n", "r", "t"}
         THEN <<CASE s[k + 1] = "n" -> "\n"
                  [] s[k + 1] = "r" -> "\r"
                  [] s[k + 1] = "t" -> "\t"
                  [] OTHER -> s[k + 1]>> \o UnescapeOnePass(s, k + 2)
         ELSE <<s[k]>> \o UnescapeOnePass(s, k + 1)

\* C5: unescaping is a non-recursive substitution: the character produced by
\* one replacement is never consumed by another escape (two backslashes and n
\* give a backslash and n); other backslash sequences pass through.
C5_UnescapeNonRecursive ==
    pc = "unescaped" => unescaped = UnescapeOnePass(payload, 1)

\* C6: with as many edits as anchors and the same set of IDs (duplicates
\* allowed), parse_document without original text returns no errors.
C6_MatchingIdsNoErrors ==
    (/\ Returned
     /\ original_text = None
     /\ Len(result.edits) = Len(result.anchors)
     /\ IdSet(result.edits) = IdSet(result.anchors)) => result.errors = <<>>

\* two anchors and two edits that share one ID, or carry two IDs in
\* opposite orders, and no original text
C6_Witness ==
    /\ Returned
    /\ original_text = None
    /\ Len(result.anchors) = 2 /\ Len(result.edits) = 2
    /\ IdSet(result.edits) = IdSet(result.anchors)
    /\ IdSeq(result.edits) # IdSeq(result.anchors)
    /\ result.errors = <<>>

\* C7: for a result with edits, errors = [] implies as many anchors as edits,
\* the same set of IDs and, with an original text, that replacing every
\* anchor by the old text of the edit with its ID, then stripping trailing
\* CR/LF, gives the original text.
C7_NoErrorsMeansInvertible ==
    (Returned /\ result.edits # <<>> /\ result.errors = <<>>) =>
        /\ Len(result.anchors) = Len(result.edits)
        /\ IdSet(result.anchors) = IdSet(result.edits)
        /\ original_text # None =>
              original_text \in RebuiltFromOld(result.inline_text,
                                               result.anchors, result.edits)

\* C8: a backmatter block that is not blank with no edits puts an error in the
\* errors list.
C8_BackmatterFailureReported ==
    (Returned /\ ~IsBlank(result.backmatter_text) /\ result.edits = <<>>) =>
        result.errors # <<>>

\* C9: with an original text, edits that match the anchors in count and ID
\* set, and no way to rebuild the original from the old texts, errors has
\* exactly one entry, the reconstruction failure.
C9_OneReconstructionError ==
    (/\ Returned
     /\ original_text # None
     /\ result.edits # <<>>
     /\ Len(result.anchors) = Len(result.edits)
     /\ IdSet(result.anchors) = IdSet(result.edits)
     /\ original_text \notin RebuiltFromOld(result.inline_text, result.anchors,
                                            result.edits)) =>
        /\ Len(result.errors) = 1
        /\ result.errors[1].msg = "Failed to reconstruct original text from edits."

\* the edits with one category and one comment for all
WithoutSoftFields(es) ==
    [k \in 1..Len(es) |->
        [es[k] EXCEPT !.category = "GRAMMAR", !.comment = <<>>]]

\* C10: the errors list does not depend on the category or the comment of any
\* edit: a call whose edits differ from these only there returns the same
\* errors; an invalid category adds no error.
C10_SoftFieldsNeverInErrors ==
    Returned =>
        result.errors = parse_document(edited_text, WithoutSoftFields(edits),
                                       backmatter_text, original_text).errors

\* a call with an edit of category BADCAT that returned no errors
C10_Witness ==
    /\ Returned
    /\ result.errors = <<>>
    /\ result.anchors # <<>>
    /\ \E k \in 1..Len(result.edits) :
          result.edits[k].category \notin VALID_CATEGORIES

\* C11: duplicates are preserved: the anchors are one entry per anchor token
\* of the inline text, in scan order, each with the id written in its token,
\* also when ids repeat, and the edits are the supplied sequence unchanged.
\* (The texts of this specification hold no bracket outside a token, so every
\* token is met at depth 0.)
C11_DuplicatesPreserved ==
    Returned =>
        LET t  == result.inline_text
            as == result.anchors
        IN /\ result.edits = edits
           /\ \A q \in 0..(Len(t) - 1) :
                  INLINE_TOKEN_RE(t, q) # NoMatch =>
                      \E k \in 1..Len(as) : as[k].span[1] = q
           /\ \A k \in 1..Len(as) :
                  /\ INLINE_TOKEN_RE(t, as[k].span[1]) # NoMatch
                  /\ as[k].id = IntOf(INLINE_TOKEN_RE(t, as[k].span[1]).id)
           /\ \A k \in 1..(Len(as) - 1) : as[k].span[2] <= as[k + 1].span[1]

\* two anchors with one id and two edits with one id were returned
C11_Witness ==
    /\ Returned
    /\ Len(result.anchors) = 2 /\ Len(result.edits) = 2
    /\ result.anchors[1].id = result.anchors[2].id
    /\ result.edits[1].id = result.edits[2].id

\* C12: parse_document is stateless per call: under any interleaving of two
\* concurrent calls each call returns the ParseResult (or raises as) it does
\* running alone, and no call changes its producer object or its edits.
C12_StatelessPerCall ==
    \A p \in Procs :
        LET f == calls[p] IN
        /\ f.pred = f.given
        /\ f.pc = "returned" =>
              /\ ~parse_document_raises(f.given.edited_text)
              /\ f.result = parse_document(f.given.edited_text, f.given.edits,
                                           f.given.backmatter_text,
                                           f.original_text)
        /\ f.pc = "raised" => parse_document_raises(f.given.edited_text)

\* both calls returned, and the second met a token at a depth above 0 while
\* the first one's depth counter was 0
C12_Witness ==
    /\ \A p \in Procs : calls[p].pc = "returned"
    /\ calls[1].result.anchors # <<>>
    /\ calls[1].depth = 0
    /\ calls[2].depth > 0
    /\ calls[2].result.anchors = <<>>
    /\ calls[1].result # calls[2].result

\* the six fields a backmatter line gives an edit
SixFields(e) ==
    [id |-> e.id, action |-> e.action, old |-> e.old, new |-> e.new,
     category |-> e.category, comment |-> e.comment]

\* C13: parse_backmatter of a block of K well-formed lines returns K edits,
\* in file order, each with its line's id, action, old, new, category and
\* comment; repeated ids are kept.
C13_WellFormedLinesParsed ==
    (pc = "backmatter_parsed" /\ \A k \in 1..Len(lines) : lines[k].good) =>
        /\ Len(result) = Len(lines)
        /\ \A k \in 1..Len(lines) : SixFields(result[k]) = lines[k].edit

\* three well-formed lines, two of them different lines with one id
C13_Witness ==
    /\ pc = "backmatter_parsed"
    /\ Len(lines) = 3 /\ Len(result) = 3
    /\ \A k \in 1..3 : lines[k].good
    /\ lines[1].edit.id = lines[3].edit.id
    /\ lines[1] # lines[3]
    /\ lines[2].edit.id # lines[1].edit.id

\* C14: parse_backmatter is fail-soft for the whole block: one line that is
\* not of the grammar, in any place, gives an empty list, never a part of the
\* edits and never an exception; blank input gives an empty list.
C14_FailSoftBlock ==
    /\ pc \in {"backmatter", "backmatter_parsed"}
    /\ (pc = "backmatter_parsed" /\ \E k \in 1..Len(lines) : ~lines[k].good) =>
           result = <<>>
    /\ (pc = "backmatter_parsed" /\ IsBlank(backmatter_text)) => result = <<>>

\* a block whose middle line alone is not of the grammar
C14_Witness ==
    /\ pc = "backmatter_parsed"
    /\ Len(lines) = 3
    /\ lines[1].good /\ ~lines[2].good /\ lines[3].good
    /\ result = <<>>

\* C15: consistency_ok holds exactly for REPLACE with old and new not empty,
\* INSERT with old empty and new not empty, and DELETE with old not empty and
\* new empty; every other shape and every other action give false.
C15_ConsistencyOk ==
    pc = "constructed" =>
        (result.consistency_ok <=>
            \/ result.action = "REPLACE" /\ result.old # <<>> /\ result.new # <<>>
            \/ result.action = "INSERT" /\ result.old = <<>> /\ result.new # <<>>
            \/ result.action = "DELETE" /\ result.old # <<>> /\ result.new = <<>>)

\* an INSERT with an old text that is not empty
C15_Witness ==
    /\ pc = "constructed"
    /\ result.action = "INSERT"
    /\ result.old # <<>> /\ result.new # <<>>
    /\ ~result.consistency_ok

\* str.strip() and str.lstrip() for the whitespace of the model
RECURSIVE LStrip(_)
LStrip(s) ==
    IF s # <<>> /\ s[1] \in {" ", "\t", "\r", "\n"} THEN LStrip(Tail(s)) ELSE s

RECURSIVE RStrip(_)
RStrip(s) ==
    IF s # <<>> /\ s[Len(s)] \in {" ", "\t", "\r", "\n"}
    THEN RStrip(SubSeq(s, 1, Len(s) - 1)) ELSE s

\* the split of a raw document at its first delimiter line: the text before
\* the line and the text after it without leading whitespace
SplitDocument(doc) ==
    LET starts == {k \in 1..Len(doc) : k = 1 \/ doc[k - 1] = "\n"}
        EndOf(k) == IF \E e \in k..Len(doc) : doc[e] = "\n"
                    THEN CHOOSE e \in k..Len(doc) :
                             doc[e] = "\n" /\ \A q \in k..(e - 1) : doc[q] # "\n"
                    ELSE Len(doc) + 1
        delims == {k \in starts :
                      LStrip(RStrip(SubSeq(doc, k, EndOf(k) - 1))) = DELIMITER}
    IN IF delims = {} THEN [inline |-> doc, backmatter |-> <<>>]
       ELSE LET k == CHOOSE x \in delims : \A y \in delims : x <= y
            IN [inline |-> SubSeq(doc, 1, k - 1),
                backmatter |-> LStrip(SubSeq(doc, EndOf(k) + 1, Len(doc)))]

\* C16: parse_document on a raw document str splits it at the first delimiter
\* line: inline_text is the text before the line, backmatter_text the text
\* after it, anchors the anchors of the inline part and edits the edits of
\* the backmatter part; without a delimiter line the whole input is the
\* inline text and backmatter_text is empty.
C16_DocumentStringSplit ==
    (Returned /\ document # None) =>
        LET parts == SplitDocument(document) IN
        /\ result.inline_text = parts.inline
        /\ result.backmatter_text = parts.backmatter
        /\ result.anchors = parse_inline_anchors(parts.inline)
        /\ result.edits = parse_backmatter(parts.backmatter)

HasRepeat(xs) == \E k, q \in 1..Len(xs) : k # q /\ xs[k].id = xs[q].id

\* the gate conditions of the configuration that hold for the result
ParseErrorGate(pr, cfg) ==
    Get(cfg, "gate_on_parse_errors", TRUE) /\ pr.errors # <<>>

DuplicateIdGate(pr, cfg) ==
    Get(cfg, "gate_on_duplicate_ids", FALSE)
        /\ (HasRepeat(pr.anchors) \/ HasRepeat(pr.edits))

ExtremeCommentGate(pr, cfg) ==
    Get(cfg, "gate_on_extreme_comments", TRUE)
        /\ \E k \in 1..Len(pr.edits) :
               CommentLen(pr.edits[k]) > Get(cfg, "extreme_comment_length", 200)

\* C17: compute_reward hard-gates: if an enabled gate condition holds (parse
\* errors, a repeated anchor or edit id, a comment longer than
\* extreme_comment_length) the breakdown is gated with reward 0, whatever the
\* scores and weights; if none holds, it is not gated.
C17_HardGates ==
    pc = "rewarded" =>
        IF \/ ParseErrorGate(result, config)
           \/ DuplicateIdGate(result, config)
           \/ ExtremeCommentGate(result, config)
        THEN breakdown.gated /\ breakdown.reward.num = 0
        ELSE ~breakdown.gated

\* gated by a repeated anchor id alone: no edits, no errors, no long comment
C17_Witness ==
    /\ pc = "rewarded"
    /\ breakdown.gated /\ breakdown.reward.num = 0
    /\ DuplicateIdGate(result, config)
    /\ HasRepeat(result.anchors) /\ ~HasRepeat(result.edits)
    /\ ~ParseErrorGate(result, config)
    /\ ~ExtremeCommentGate(result, config)
    /\ result.errors = <<>>

\* every change of the session has the decision d, given or by default
AllDecided(d) ==
    \A k \in 1..Len(session.changes) :
        DecisionFor(decisions, session.changes[k].id) = d

\* C18: when every change of a session is rejected, by an explicit "reject"
\* or by having no decision at all, apply_user_decisions returns exactly the
\* session's original text
C18_RejectAllOriginal ==
    (pc = "applied" /\ AllDecided("reject"))
        => result = session.original_text

\* a session of two changes, one rejected explicitly and one by default,
\* whose texts differ, has been applied
C18_Witness ==
    /\ pc = "applied"
    /\ Len(session.changes) >= 2
    /\ AllDecided("reject")
    /\ DOMAIN decisions # {}
    /\ \E k \in 1..Len(session.changes) :
           session.changes[k].id \notin DOMAIN decisions
    /\ session.original_text # session.revised_text
    /\ result = session.original_text

\* C19: when every change of a session is accepted, apply_user_decisions
\* returns exactly the session's revised text, also when the session has no
\* changes because the two texts differ only in whitespace
C19_AcceptAllRevised ==
    (pc = "applied" /\ AllDecided("accept"))
        => result = session.revised_text

\* C20: after any sequence of detect_changes calls on one detector, the
\* changes of the session returned last carry the ids 1..n in list order
C20_IdsFromOne ==
    pc \in {"detected", "applied"}
        => /\ \A k \in 1..Len(session.changes) : session.changes[k].id = k
           /\ change_id_counter = Len(session.changes)

\* a later call, with the texts in the other role, has returned a session
\* of two changes on a detector that had handed out ids before
C20_Witness ==
    /\ pc = "detected"
    /\ original_text # revised_text
    /\ session.original_text = revised_text
    /\ session.revised_text = original_text
    /\ Len(session.changes) >= 2
    /\ session.changes[2].id = 2

\* offsets of s where a legacy delete marker '[#N]' stands
LegacyMarkers(s) ==
    {p \in 0..(Len(s) - 4) :
        /\ At(s, p) = "[" /\ At(s, p + 1) = "#"
        /\ At(s, p + 2) \in Digits \ {"0"}
        /\ DigitRunEnd(s, p + 2) < Len(s)
        /\ At(s, DigitRunEnd(s, p + 2)) = "]"}

CountChar(s, c) == Cardinality({k \in 1..Len(s) : s[k] = c})

TokenText(s, a) == Slice(s, a.span[1], a.span[2])

FellBack ==
    /\ original_text # None
    /\ result.edits # <<>>
    /\ \E k \in 1..Len(result.anchors) :
          ~EditMapHas(result.edits, result.anchors[k].id)

\* C24: whenever the reconstruction falls back to an anchor's own new_text
\* because no edit has the anchor's ID, the errors of the same result hold the
\* ID-set mismatch error.
C24_FallbackIsFlagged ==
    (Returned /\ FellBack) =>
        \E q \in 1..Len(result.errors) : result.errors[q] = IdError

\* a fallback in a call with as many edits as anchors, so that the count
\* check is silent
C24_Witness ==
    /\ Returned
    /\ FellBack
    /\ Len(result.anchors) = Len(result.edits)
    /\ result.errors[1] = IdError

\* C25: load_config merges the user configuration into the defaults: every
\* top-level key and every component weight that the user file does not set
\* keeps its default value in the returned configuration.
C25_DefaultsKept ==
    pc = "loaded" =>
        /\ \A k \in DOMAIN DEFAULT_CONFIG \ {"weights"} :
              k \notin DOMAIN document =>
                  k \in DOMAIN config /\ config[k] = DEFAULT_CONFIG[k]
        /\ "weights" \in DOMAIN config
        /\ \A w \in DOMAIN DEFAULT_WEIGHTS :
              w \notin DOMAIN Get(document, "weights", EmptyDict) =>
                  /\ w \in DOMAIN config.weights
                  /\ config.weights[w] = DEFAULT_WEIGHTS[w]

\* the '[' at offset p is closed before offset q: some prefix of the text
\* between them holds more ']' than '['
ClosedBefore(s, p, q) ==
    \E r \in (p + 1)..(q - 1) :
        Cardinality({k \in (p + 1)..r : At(s, k) = "]"})
            > Cardinality({k \in (p + 1)..r : At(s, k) = "["})

\* the offsets of the '[' that start no token
UnmatchedOpens(s) ==
    {p \in 0..(Len(s) - 1) : At(s, p) = "[" /\ INLINE_TOKEN_RE(s, p) = NoMatch}

\* C26: an unbalanced '[' suppresses what follows it.  A '[' that yields no
\* anchor raises the depth counter, and no anchor is emitted while the counter
\* is above 0; so every anchor after a '[' that starts no token lies behind
\* the ']' that closes it, and when nothing closes it the text from that '['
\* on, well-formed tokens included, is in final_text verbatim.
C26_UnbalancedSuppresses ==
    /\ [][(pc = "scan" /\ i' > i /\ At(edited_text, i) = "["
              /\ matches' = matches) => depth' = depth + 1]_vars
    /\ [][depth > 0 => matches' = matches]_vars
    /\ [](pc = "rendered" =>
            \A p \in UnmatchedOpens(edited_text) :
                /\ \A k \in 1..Len(result.anchors) :
                      result.anchors[k].span[1] > p =>
                          ClosedBefore(edited_text, p,
                                       result.anchors[k].span[1])
                /\ ~ClosedBefore(edited_text, p, Len(edited_text)) =>
                      LET rest == RStripCRLF(Slice(edited_text, p,
                                                   Len(edited_text)))
                          t    == result.final_text
                      IN /\ Len(t) >= Len(rest)
                         /\ SubSeq(t, Len(t) - Len(rest) + 1, Len(t)) = rest)

\* a text with an anchor, then a '[' that nothing closes, then a well-formed
\* token that yields no anchor
C26_Witness ==
    /\ pc = "rendered"
    /\ Len(result.anchors) = 1
    /\ \E p \in UnmatchedOpens(edited_text) :
          /\ p >= result.anchors[1].span[2]
          /\ ~ClosedBefore(edited_text, p, Len(edited_text))
          /\ \E q \in (p + 1)..(Len(edited_text) - 1) :
                INLINE_TOKEN_RE(edited_text, q) # NoMatch

ReconstructionFailed ==
    \E q \in 1..Len(result.errors) :
        result.errors[q].msg = "Failed to reconstruct original text from edits."

\* C27: the reconstructed text has its trailing CR/LF stripped and the
\* original text is compared as it is, so every call with edits and an
\* original text that ends with CR or LF reports a reconstruction failure,
\* also when the edits are otherwise exactly invertible.
C27_TrailingBreakFails ==
    (/\ Returned
     /\ result.edits # <<>>
     /\ original_text # None /\ original_text # <<>>
     /\ original_text[Len(original_text)] \in {"\r", "\n"}) =>
        ReconstructionFailed

\* one anchor with its edit, an edited text and an original text that both
\* end with a line break, and a reconstruction that equals the original text
\* up to that line break: the failure is the only error
C27_Witness ==
    /\ Returned
    /\ Len(result.edits) = 1 /\ Len(result.anchors) = 1
    /\ original_text # None /\ original_text # <<>>
    /\ original_text[Len(original_text)] = "\n"
    /\ result.inline_text[Len(result.inline_text)] = "\n"
    /\ RStripCRLF(original_text)
           = apply_inline_with_old_text(result.inline_text, result.edits)
    /\ Len(result.errors) = 1
    /\ ReconstructionFailed

\* the edits with an empty new text for all
WithoutNew(es) == [k \in 1..Len(es) |-> [es[k] EXCEPT !.new = <<>>]]

\* C28: the errors of parse_document do not depend on the new field of any
\* edit: a call returns the errors of the call whose edits have the same id
\* and old and one fixed new, so two calls that differ only in new return the
\* same errors, and an edit whose new text differs from the payload of the
\* anchor with its ID is not reported.
C28_ErrorsIgnoreNew ==
    Returned =>
        result.errors = parse_document(edited_text, WithoutNew(edits),
                                       backmatter_text, original_text).errors

\* a call that returned no errors for an edit whose new text is not the
\* payload of the anchor with its ID, with an original text
C28_Witness ==
    /\ Returned
    /\ original_text # None
    /\ result.errors = <<>>
    /\ Len(result.anchors) = 1 /\ Len(result.edits) = 1
    /\ result.anchors[1].id = result.edits[1].id
    /\ result.anchors[1].new_text # <<>>
    /\ result.anchors[1].new_text # result.edits[1].new

\* the edits with the old text of every edit that a later edit with the same
\* ID follows replaced by one fixed text
WithEarlierOldsReplaced(es) ==
    [k \in 1..Len(es) |->
        IF \E q \in (k + 1)..Len(es) : es[q].id = es[k].id
        THEN [es[k] EXCEPT !.old = <<"z">>]
        ELSE es[k]]

\* the old text of the last edit with the ID of anchor a, unescaped, or the
\* anchor's own new text when no edit has the ID
LastOldFor(es, a) ==
    LET ks == {k \in 1..Len(es) : es[k].id = a.id}
    IN IF ks = {} THEN unescape_minimal(a.new_text)
       ELSE unescape_minimal(es[CHOOSE k \in ks : \A q \in ks : q <= k].old)

\* C29: when several edits share one ID, the reconstruction puts the old text
\* of the last of them, in sequence order, in place of every anchor with that
\* ID; the old texts of the earlier ones change neither the reconstructed
\* text nor the errors.
C29_LastEditWins ==
    (Returned /\ result.edits # <<>>) =>
        LET as == result.anchors
            t  == result.inline_text
        IN /\ apply_inline_with_old_text(t, result.edits)
                  = RStripCRLF(SubstituteSpans(t, as,
                        [k \in 1..Len(as) |-> LastOldFor(result.edits, as[k])],
                        1, 0))
           /\ apply_inline_with_old_text(t, result.edits)
                  = apply_inline_with_old_text(t,
                        WithEarlierOldsReplaced(result.edits))
           /\ result.errors
                  = parse_document(edited_text,
                                   WithEarlierOldsReplaced(result.edits),
                                   backmatter_text, original_text).errors

\* two edits with one ID and different old texts, of which the last one
\* rebuilds the original text: no reconstruction failure is reported
C29_Witness ==
    /\ Returned
    /\ original_text # None
    /\ Len(result.edits) = 2 /\ Len(result.anchors) = 1
    /\ result.edits[1].id = result.edits[2].id
    /\ result.edits[2].id = result.anchors[1].id
    /\ result.edits[1].old # result.edits[2].old
    /\ result.edits[2].old = original_text
    /\ result.errors = <<CountError>>

\* C30: the scan loop of iter_inline_matches terminates on every finite
\* input: each iteration moves the cursor forward, by 1 or to the end of a
\* match that lies beyond it, the cursor never passes the end of the text,
\* and no more anchors are emitted than the text has '[' characters.
C30_ScanTerminates ==
    /\ (pc = "scan") ~> (pc \in {"parsed", "raised"})
    /\ [][(pc = "scan" /\ i < Len(edited_text)) =>
             /\ i' > i
             /\ (matches' = matches => i' = i + 1)
             /\ (matches' # matches => i' = matches'[Len(matches')].end)]_vars
    /\ [](0 <= i /\ i <= Len(edited_text))
    /\ [](Len(matches) <= CountChar(edited_text, "["))

\* the loop has ended on a text with brackets after it emitted matches and
\* passed other characters
C30_Witness ==
    /\ pc = "parsed"
    /\ i = Len(edited_text)
    /\ Len(matches) >= 1
    /\ Len(matches) < CountChar(edited_text, "[")
    /\ CountChar(edited_text, "\n") >= 1

====
